---- MODULE Spec2Model ----
(***************************************************************************)
(* Station catalog pipeline (hooks/useQueries.ts, the version-6 copy at    *)
(* lines 1-660) and stream playback resilience (AudioPlayer) of the        *)
(* fm-radio-live client.                                                   *)
(*                                                                         *)
(* Two state machines share this module:                                   *)
(*   Spec, SpecLoader, SpecRefresh - tiered cache + catalog loader (module *)
(*                globals of useQueries.ts, localStorage, IndexedDB,       *)
(*                react-query data, the running async invocations)         *)
(*   SpecUpgrade - the same, across the deployment of the version-7 copy   *)
(*                (lines 662-1309), followed through its cache layers      *)
(*   SpecPeriodic - the loader alone over directories of seven pages       *)
(*   SpecPlayer - the AudioPlayer reconnect machine                        *)
(*   SpecSound - the same with its volume and mute controls                *)
(* SpecPure calls the pure functions of the pipeline (validity filter,     *)
(* coordinate dedup, ranking, merge, mirror failover) and the next and     *)
(* previous handlers of the App on bounded sets of arguments, and          *)
(* SpecStore is the backend actor (backend/main.mo).                       *)
(***************************************************************************)
EXTENDS Integers, Sequences, FiniteSets, TLC

VARIABLES
    \* ---- useQueries.ts module globals (lines 35-47)
    memoryCache,              \* None or Some(sequence of stations)
    memoryCacheTimestamp,
    currentOffset,
    isLoadingBatch,
    allStationsLoaded,
    lazyLoadedStations,
    consecutiveEmptyBatches,
    christianStationsFetched,
    christianStationsCache,
    \* ---- durable tiers
    localStore,               \* None or Some([stations, timestamp, capturedAt])
    indexedDB,                \* None or Some([stations, timestamp, capturedAt])
    \* ---- react-query data of ['globalRadioStations'] (what subscribers see)
    queryData,                \* None (undefined) or Some(sequence of stations)
    \* ---- running async invocations
    batches,                  \* set of running loadNextBatch invocations
    query,                    \* the running queryFn invocation, pc = "idle" if none
    \* ---- environment
    now,                      \* Date.now(), in ms
    source,                   \* which directory content the mirrors serve
    lsWorks, idbWorks,        \* whether writes to localStorage / IndexedDB succeed
    build,                    \* the cache version of the deployed build (6, then 7)
    retiredStore,             \* localStorage items under the keys of an earlier build
    \* ---- history (not program state)
    memCapturedAt,            \* when the list in memoryCache was built from the network
    memWrittenBy,             \* the build whose entry or fetch the list in memoryCache comes from
    refs,                     \* which array object each reference to a station list holds
    lastRead,                 \* how the last finished catalog read was served
    cycle,                    \* facts about the current load cycle
    clears,                   \* how often clearAllCaches has run
    \* ---- AudioPlayer (part_005 lines 216-230)
    station,                  \* the station prop, NoStation when null
    isPlaying, error,         \* React state
    retryCount,               \* retryCountRef
    retryTimer,               \* retryTimeoutRef while pending: None or Some(delay in ms)
    reloadTimer,              \* the 100 ms timer: None or Some(captured streamUrl)
    playbackStarted,          \* playbackStartedRef
    isReconnecting,           \* isReconnectingRef
    currentStation,           \* currentStationRef
    volume,                   \* React state, 0..100
    isMuted, previousVolume,  \* React state
    \* ---- the audio element
    audioSrc,                 \* audio.src, "" when empty
    paused,                   \* audio.paused
    media,                    \* what the element is doing with its source
    audioVolume,              \* audio.volume, in hundredths
    \* ---- one call of a pure function of useQueries.ts
    call,                     \* [fn, a, b]: the function and its arguments
    ret,                      \* None until it returns, then Some(result)
    \* ---- the backend actor (backend/main.mo)
    userProfiles,             \* Principal -> None or Some(UserProfile)
    userStats,                \* Principal -> None or Some(UserStats)
    channelStatus,            \* Principal -> None or Some(ChannelStatus)
    userRoles,                \* accessControlState: Principal -> role
    reply                     \* the last call of the actor and its answer

loaderVars == <<memoryCache, memoryCacheTimestamp, currentOffset, isLoadingBatch,
                allStationsLoaded, lazyLoadedStations, consecutiveEmptyBatches,
                christianStationsFetched, christianStationsCache,
                localStore, indexedDB, queryData, batches, query, now, source,
                lsWorks, idbWorks, memCapturedAt, lastRead, cycle, clears,
                build, retiredStore, memWrittenBy, refs>>

soundVars == <<volume, isMuted, previousVolume, audioVolume>>

playerVars == <<station, isPlaying, error, retryCount, retryTimer, reloadTimer,
                playbackStarted, isReconnecting, currentStation, audioSrc, paused, media,
                soundVars>>

pureVars == <<call, ret>>

storeVars == <<userProfiles, userStats, channelStatus, userRoles, reply>>

vars == <<loaderVars, playerVars, pureVars, storeVars>>

\* A nullable value: None, or Some(x)
None == <<>>
Some(x) == <<x>>

---------------------------------------------------------------------------
(* Bounds of the model                                                     *)

\* Date.now() advances in steps of half a cache duration, at most MaxTicks times.
MaxTicks == 2
\* At most this many loadNextBatch invocations run at once.
MaxInFlight == 2
\* The user refreshes (clearAllCaches) at most this often.
MaxClears == 1

---------------------------------------------------------------------------
(* Program constants                                                       *)

CACHE_DURATION == 1000 * 60 * 45
\* the cache version of the build (line 31) and of the build that replaces it
\* (line 693)
INDEXEDDB_VERSION == 6
BumpedVersion == 7
\* the names the tiers are addressed by, per cache version (lines 27-32, 689-694)
CACHE_KEY(v) == <<"globalfm_global_cache_v", v>>
CACHE_TIMESTAMP_KEY(v) == <<"globalfm_global_timestamp_v", v>>
INDEXEDDB_NAME(v) == "GlobalFMCache"
STORE_NAME(v) == "globalStations"
PageSize == 200
EmptyBatchLimit == 3
SavePeriod == 1000
MinBitrate == 24

TimeStep == CACHE_DURATION \div 2

---------------------------------------------------------------------------
(* Stations.  A coordinate is None (null), NaN or Some(v), v in 1/10000 of  *)
(* a degree (so that rounding to three decimals does something);           *)
(* stationuuid is a number whose order stands for the order of the uuid    *)
(* strings; votes, clickcount and bitrate are naturals, as the directory   *)
(* serves them.                                                            *)

St(id, lat, lng, votes, clicks, rate, lang, res, raw, ctry) ==
    [stationuuid |-> id, geo_lat |-> lat, geo_long |-> lng, votes |-> votes,
     clickcount |-> clicks, bitrate |-> rate, language |-> lang,
     url_resolved |-> res, url |-> raw, country |-> ctry]

\* a coordinate that is a number but not a value: neither None nor Some(v)
NaN == <<0, 0>>
IsNaN(c) == Len(c) = 2

Abs(x) == IF x < 0 THEN -x ELSE x

\* Number.prototype.toFixed(3) on a value given in 1/10000: the sign and the
\* magnitude rounded to thousandths, ties to the larger magnitude.
ToFixed3(v) == [neg |-> v < 0, mag |-> (Abs(v) + 5) \div 10]

CoordKey(s) == <<ToFixed3(s.geo_lat[1]), ToFixed3(s.geo_long[1])>>

\* votes * 2 + clickcount + bitrate / 10, times ten to stay in the integers
Score10(s) == 20 * s.votes + 10 * s.clickcount + s.bitrate

\* a coordinate check that lets (0, 0) pass
hasValidCoordinates_zeroAllowed(s) ==
    /\ s.geo_lat # None
    /\ s.geo_long # None
    /\ ~(IsNaN(s.geo_lat) \/ IsNaN(s.geo_long))
    /\ LET lat == s.geo_lat[1]
           lng == s.geo_long[1]
       IN  ~(lat < -900000 \/ lat > 900000 \/ lng < -1800000 \/ lng > 1800000)

hasValidCoordinates(s) ==
    /\ s.geo_lat # None
    /\ s.geo_long # None
    /\ ~(IsNaN(s.geo_lat) \/ IsNaN(s.geo_long))
    /\ LET lat == s.geo_lat[1]
           lng == s.geo_long[1]
       IN  /\ ~(lat < -900000 \/ lat > 900000 \/ lng < -1800000 \/ lng > 1800000)
           /\ ~(lat = 0 /\ lng = 0)

\* station.url_resolved || station.url
StreamUrl(s) == IF s.url_resolved # "" THEN s.url_resolved ELSE s.url

UuidLess(a, b) == a.stationuuid < b.stationuuid

\* the comparator of processStations: score descending, uuid ascending on ties
RankLess(a, b) ==
    \/ Score10(a) > Score10(b)
    \/ (Score10(a) = Score10(b) /\ a.stationuuid < b.stationuuid)

\* Array.prototype.sort with a consistent comparator: a stable sort, by
\* RankLess (byRank) or by UuidLess
StableSort(seq, byRank) ==
    LET n == Len(seq)
        Less(a, b) == IF byRank THEN RankLess(a, b) ELSE UuidLess(a, b)
        rank(i) == Cardinality({j \in 1..n :
                        \/ Less(seq[j], seq[i])
                        \/ (~Less(seq[i], seq[j]) /\ j < i)})
    IN  [k \in 1..n |-> seq[CHOOSE i \in 1..n : rank(i) = k - 1]]

deduplicateByCoordinates(stations) ==
    LET sorted == StableSort(stations, FALSE)
        n == Len(sorted)
        fold[i \in 0..n] ==
            IF i = 0 THEN <<>>
            ELSE LET m == fold[i - 1]
                     st == sorted[i]
                     hit == {k \in 1..Len(m) : CoordKey(m[k]) = CoordKey(st)}
                 IN  IF hit = {} THEN Append(m, st)
                     ELSE LET k == CHOOSE x \in hit : TRUE
                              existing == m[k]
                          IN  IF \/ Score10(st) > Score10(existing)
                                 \/ (Score10(st) = Score10(existing)
                                     /\ st.stationuuid < existing.stationuuid)
                              THEN [m EXCEPT ![k] = st]
                              ELSE m
    IN  fold[n]

\* an identifier dedup in which a later record replaces the one kept
deduplicateByUUID_keepLast(stations) ==
    LET n == Len(stations)
        fold[i \in 0..n] ==
            IF i = 0 THEN <<>>
            ELSE LET m == fold[i - 1]
                     hit == {k \in 1..Len(m) : m[k].stationuuid = stations[i].stationuuid}
                 IN  IF hit = {} THEN Append(m, stations[i])
                     ELSE [m EXCEPT ![CHOOSE k \in hit : TRUE] = stations[i]]
    IN  fold[n]

\* deduplicateByUUID (lines 186-196): a Map keyed by stationuuid, first record kept
deduplicateByUUID(stations) ==
    LET n == Len(stations)
        fold[i \in 0..n] ==
            IF i = 0 THEN <<>>
            ELSE LET m == fold[i - 1]
                 IN  IF \E k \in 1..Len(m) : m[k].stationuuid = stations[i].stationuuid
                     THEN m
                     ELSE Append(m, stations[i])
    IN  fold[n]

\* a validity filter that does not look at the country
IsValidStation_anyCountry(s) ==
    /\ hasValidCoordinates(s)
    /\ StreamUrl(s) # ""
    /\ ~(s.bitrate > 0 /\ s.bitrate < MinBitrate)

\* the filter of processStations (lines 200-220)
IsValidStation(s) ==
    /\ hasValidCoordinates(s)
    /\ StreamUrl(s) # ""
    /\ s.country # ""
    /\ ~(s.bitrate > 0 /\ s.bitrate < MinBitrate)

processStations(allStations) ==
    LET validStations == SelectSeq(allStations, IsValidStation)
        deduplicatedStations == deduplicateByCoordinates(validStations)
    IN  StableSort(deduplicatedStations, TRUE)

\* a merge that leaves the feed out
mergeStations_globalOnly(globalStations, christianStations) == globalStations

\* mergeStations (lines 385-395)
mergeStations(globalStations, christianStations) ==
    deduplicateByUUID(globalStations \o christianStations)

\* the filter applied to a fetched page before it is accumulated
BatchFilter(s) == hasValidCoordinates(s) /\ StreamUrl(s) # ""
ValidBatch(batch) == SelectSeq(batch, BatchFilter)

\* lang.includes('hindi') || lang.includes('english'), lang lower-cased, on
\* the language values the modelled directory uses
LanguageMatches(s) == s.language \in {"hindi", "english", "Hindi", "english,hindi"}
FeedFilter(data) == SelectSeq(data, LanguageMatches)

---------------------------------------------------------------------------
(* The external directory: what the mirrors answer.  Four contents are     *)
(* modelled, chosen once per behaviour; "offline" is the directory out of  *)
(* reach, which any of them can become.                                    *)

sA    == St(1, Some(100000), Some(200000), 5, 0, 128, "english", "ra", "", "IN")
sB    == St(2, Some(300000), Some(400000), 3, 1, 0, "german", "", "ub", "DE")
\* rounds to the coordinate key of sA and outscores it
sC    == St(3, Some(100004), Some(200000), 9, 0, 64, "hindi", "rc", "uc", "IN")
sNull == St(4, None, Some(10000), 8, 0, 128, "english", "rn", "", "US")
\* passes the page filter, fails the bitrate rule of processStations
sLow  == St(5, Some(500000), Some(600000), 7, 0, 16, "english", "rl", "", "US")
sE    == St(6, Some(700000), Some(800000), 2, 0, 0, "english", "re", "", "GB")
\* the tagged feed's record of station 6
\* sA as the directory returns it after its coordinates were edited
sMoved == St(1, Some(500000), Some(600000), 5, 0, 128, "english", "ra", "", "IN")
sE2   == St(6, Some(700000), Some(800000), 4, 0, 0, "english", "re", "", "GB")
sF    == St(7, Some(-4), Some(900000), 1, 0, 32, "hindi", "rf", "", "IN")
sG    == St(8, Some(200000), Some(100000), 6, 0, 32, "french", "rg", "", "FR")
\* records the validity rules reject, popular enough to lead the ranking
sZero      == St(9, Some(0), Some(0), 9, 9, 128, "english", "rz", "", "GH")
sFar       == St(10, Some(900001), Some(0), 9, 9, 128, "english", "rx", "", "NO")
sNaN       == St(11, NaN, Some(100000), 9, 9, 128, "english", "rq", "", "US")
sNoCountry == St(12, Some(400000), Some(500000), 9, 9, 128, "english", "rk", "", "")
sNoUrl     == St(13, Some(600000), Some(700000), 9, 9, 128, "hindi", "", "", "IN")

Sources == {"three", "gap", "late", "one", "invalid", "offline"}

\* GET /json/stations?limit=200&offset=o answered by a mirror
Page(src, o) ==
    CASE src = "three" ->
            (CASE o = 0 -> <<sA, sB>>
               [] o = 200 -> <<sC, sNull, sZero>>
               [] o = 400 -> <<sA, sLow, sE, sNoCountry, sFar>>
               [] OTHER -> <<>>)
      [] src = "gap" ->
            (CASE o = 0 -> <<sA>>
               [] o = 200 -> <<sB>>
               [] o = 400 -> <<sC>>
               [] o = 600 -> <<sE>>
               [] o = 800 -> <<sLow, sF, sNoCountry>>
               [] OTHER -> <<>>)
      [] src = "late" ->
            (CASE o = 0 -> <<sA>>
               [] o = 200 -> <<sB>>
               [] o = 400 -> <<sE>>
               [] o = 600 -> <<sF>>
               [] o = 800 -> <<sLow>>
               [] o = 1000 -> <<sG>>
               [] o = 1200 -> <<sMoved>>
               [] OTHER -> <<>>)
      [] src = "one" ->
            (CASE o = 0 -> <<sA, sB, sLow>>
               [] OTHER -> <<>>)
      [] OTHER ->
            (CASE o = 0 -> <<sNull>>
               [] OTHER -> <<>>)

\* the requests no mirror answers (network error, timeout, non-2xx, bad body)
MirrorsDown(src, o) ==
    \/ (src = "gap" /\ o = 200)
    \/ (src = "late" /\ o = 800)
    \/ src = "offline"

\* GET /json/stations/bytag/christian answered by a mirror
Feed(src) ==
    CASE src = "three" -> <<sE2, sF, sG, sNoUrl, sNaN, sNull>>
      [] src = "gap" -> <<sG, sF>>
      [] src = "one" -> <<sC, sG>>
      [] OTHER -> <<>>

\* What one mirror does with a request (lines 290-310): fetch rejects
\* ("network", or "timeout" after 15 s), the status is not 2xx ("status"),
\* the body is not JSON ("json") or is JSON but not an array ("object"), or
\* the body is an array of records ("array").
FailureKinds == {"network", "timeout", "status", "json", "object"}
Answer(kind, body) == [kind |-> kind, body |-> body]

\* lines 282-286
servers == <<"de1", "at1", "nl1">>

\* a loop body that does not test response.ok
MirrorFails_statusIgnored(r) == r.kind \in FailureKinds \ {"status"}

\* the try block of lines 289-313 throws and the catch continues
MirrorFails(r) == r.kind \in FailureKinds

\* the for loop of lines 288-317 from server i on, and line 320: the batch
\* returned and the servers requested
RECURSIVE FetchFrom(_, _)
FetchFrom(answers, i) ==
    IF i > Len(servers) THEN [batch |-> <<>>, contacted |-> servers]
    ELSE IF MirrorFails(answers[i]) THEN FetchFrom(answers, i + 1)
    ELSE [batch |-> answers[i].body, contacted |-> SubSeq(servers, 1, i)]

\* the mirrors as the sources present them: de1 of "three" times out
MirrorAnswers(src, offset) ==
    IF MirrorsDown(src, offset)
    THEN [i \in 1..Len(servers) |-> Answer(IF src = "offline" THEN "network" ELSE "status", <<>>)]
    ELSE [i \in 1..Len(servers) |->
             IF src = "three" /\ i = 1 THEN Answer("timeout", <<>>)
             ELSE Answer("array", Page(src, offset))]

\* some mirror returns an array for the page (line 311 is reached)
MirrorAnswered(src, offset) ==
    \E i \in 1..Len(servers) : ~MirrorFails(MirrorAnswers(src, offset)[i])

\* fetchBatchFromAPI: the page of the first mirror that answers, [] when all fail
fetchBatchFromAPI(src, offset) == FetchFrom(MirrorAnswers(src, offset), 1).batch

---------------------------------------------------------------------------
(* Tier reads and writes                                                   *)

\* a stored entry; capturedAt and version (the build that wrote it) are history
Entry(stations, cap) ==
    [stations |-> stations, timestamp |-> now, capturedAt |-> cap, version |-> build]

\* queryFn layer 1: memoryCache && Date.now() - memoryCacheTimestamp < CACHE_DURATION
MemoryHit == memoryCache # None /\ now - memoryCacheTimestamp < CACHE_DURATION

\* getFromIndexedDB: the stations of a stored entry that is young enough
IdbFresh(e) == e.timestamp # 0 /\ now - e.timestamp < CACHE_DURATION
\* a read of IndexedDB that never finds an entry
getFromIndexedDB_miss == None

getFromIndexedDB ==
    IF indexedDB # None /\ IdbFresh(indexedDB[1]) THEN Some(indexedDB[1].stations) ELSE None

\* getCachedStations: expired when age > CACHE_DURATION; an empty list is no hit
LsExpired(e) == now - e.timestamp > CACHE_DURATION
getCachedStations ==
    IF localStore = None THEN None
    ELSE IF LsExpired(localStore[1]) THEN None
    ELSE IF Len(localStore[1].stations) > 0 THEN Some(localStore[1].stations)
    ELSE None
\* ... and it removes both keys of an expired entry
LocalStoreAfterGet ==
    IF localStore # None /\ LsExpired(localStore[1]) THEN None ELSE localStore

\* setCachedStations: on a failed write the keys are removed and the second
\* try fails too, silently
setCachedStations(stations, cap) == IF lsWorks THEN Some(Entry(stations, cap)) ELSE None

\* saveToIndexedDB: put {stations, timestamp: Date.now()}; a failure is swallowed.
\* A put issued before a deleteDatabase is wiped by it.
saveToIndexedDB(stations, cap, wiped) ==
    IF wiped THEN indexedDB
    ELSE IF idbWorks THEN Some(Entry(stations, cap))
    ELSE indexedDB

---------------------------------------------------------------------------
(* Load cycle history                                                      *)

NoOffset == 0 - 1

\* of the running load cycle: begun by a cold start, offsets whose pages were
\* appended, offset of the fetch that completed it, requests made to the
\* thematic feed, final merge published, offsets of the pages in the catalog
\* last handed to setCachedStations
FreshCycle == [cold |-> FALSE, pages |-> {}, doneAt |-> NoOffset, feeds |-> 0,
               merged |-> FALSE, saved |-> {}]

\* the running invocations once their load cycle is over; with `wipe` (a
\* deleteDatabase was issued) a put they have already issued is wiped
MarkStale(bs, wipe) ==
    {IF wipe /\ b.pc \in {"pageSave", "feedSave"}
     THEN [b EXCEPT !.stale = TRUE, !.wiped = TRUE, !.local = <<>>, !.cap = 0]
     ELSE [b EXCEPT !.stale = TRUE] : b \in bs}

\* no read is running; refresh marks the read that handleRefresh starts
IdleQuery == [pc |-> "idle", local |-> <<>>, cap |-> 0, refresh |-> FALSE]

---------------------------------------------------------------------------
(* Player variables are initialised here and left alone by the loader.     *)

NoStation == "null"

\* useState(70), lines 219 and 221; the fallback of toggleMute, line 426
DefaultVolume == 70

\* AudioPlayer after its mount effect (lines 216-230, 239-245)
PlayerInit ==
    /\ volume = DefaultVolume
    /\ isMuted = FALSE
    /\ previousVolume = DefaultVolume
    /\ audioVolume = DefaultVolume
    /\ station = NoStation
    /\ isPlaying = FALSE
    /\ error = None
    /\ retryCount = 0
    /\ retryTimer = None
    /\ reloadTimer = None
    /\ playbackStarted = FALSE
    /\ isReconnecting = FALSE
    /\ currentStation = NoStation
    /\ audioSrc = ""
    /\ paused = TRUE
    /\ media = "empty"

\* no pure function is being exercised
NoCall == [fn |-> "none", a |-> <<>>, b |-> <<>>]
IdleCall == call = NoCall /\ ret = None

\* Array objects.  A station list is a JavaScript array, and a variable holds a
\* reference to it: refs names the object behind lazyLoadedStations (lazy),
\* memoryCache (mem), the query data handed to subscribers (data) and the
\* list a suspended queryFn will return (local).  filter, Array.from, [...x],
\* [] and a deserialised cache entry are objects no reference held so far
\* points to; an assignment copies the reference; push changes the object.
NoRef == 0
RefIds == 1..6
InitRefs == [lazy |-> 1, mem |-> NoRef, data |-> NoRef, local |-> NoRef]
Held(r) == {r.lazy, r.mem, r.data, r.local}
NewArray(r) == CHOOSE n \in RefIds : n \notin Held(r)

\* lines 539-549: validStations = firstBatch.filter(...) becomes the
\* accumulator, processStations(validStations) builds the list to return
ColdStartArrays_shared(r) ==
    LET validStations == NewArray(r)
    IN  [r EXCEPT !.lazy = validStations, !.local = validStations]

ColdStartArrays(r) ==
    LET validStations == NewArray(r)
        processedStations == NewArray([r EXCEPT !.lazy = validStations])
    IN  [r EXCEPT !.lazy = validStations, !.local = processedStations]

\* lines 462-469 and 421-427: processStations(...) builds a list, which is
\* assigned to memoryCache and passed to setQueryData
PublishedArrays(r) ==
    LET processedStations == NewArray(r)
    IN  [r EXCEPT !.mem = processedStations, !.data = processedStations]

\* the principals that call the actor
Principals == {"root", "alice", "bob"}
Roles == {"admin", "user", "guest"}
\* the principals that are not the admin
Members == {"alice", "bob"}

\* the records a principal saves: its own name and its own figures
ProfileOf(p) == [name |-> p]
PrincipalNumber(p) == CASE p = "alice" -> 1 [] p = "bob" -> 2 [] OTHER -> 3
StatsOf(p) == [weeklyActiveUsers |-> PrincipalNumber(p), monthlyActiveUsers |-> 10,
               lifetimeUsers |-> 100]
StatusOf(p) == [liveChannels |-> PrincipalNumber(p), offlineChannels |-> 10]

NoReply == [op |-> "none", caller |-> "", user |-> "", ok |-> TRUE, value |-> None]

\* lines 29-33 and 53: empty maps; access control after root, the first
\* principal to initialize it, became admin and alice registered as a user
StoreInit ==
    /\ userProfiles = [p \in Principals |-> None]
    /\ userStats = [p \in Principals |-> None]
    /\ channelStatus = [p \in Principals |-> None]
    /\ userRoles = [p \in Principals |->
                       CASE p = "root" -> "admin" [] p = "alice" -> "user" [] OTHER -> "guest"]
    /\ reply = NoReply

GlobalsInit ==
    /\ memoryCache = None
    /\ memoryCacheTimestamp = 0
    /\ currentOffset = 0
    /\ isLoadingBatch = FALSE
    /\ allStationsLoaded = FALSE
    /\ lazyLoadedStations = <<>>
    /\ consecutiveEmptyBatches = 0
    /\ christianStationsFetched = FALSE
    /\ christianStationsCache = <<>>

LoaderInit(srcs, storeModes) ==
    /\ GlobalsInit
    /\ localStore = None
    /\ indexedDB = None
    /\ queryData = None
    /\ batches = {}
    /\ query = IdleQuery
    /\ now = TimeStep
    /\ source \in srcs
    /\ lsWorks \in storeModes
    /\ idbWorks \in storeModes
    /\ memCapturedAt = 0
    /\ memWrittenBy = 0
    /\ build = INDEXEDDB_VERSION
    /\ retiredStore = None
    /\ lastRead = "none"
    /\ cycle = FreshCycle
    /\ clears = 0
    /\ refs = InitRefs

Init == LoaderInit({"one", "invalid"}, BOOLEAN) /\ PlayerInit /\ StoreInit /\ IdleCall

---------------------------------------------------------------------------
(* queryFn of useRadioStations (lines 491-568)                             *)

globals == <<memoryCache, memoryCacheTimestamp, currentOffset, isLoadingBatch,
             allStationsLoaded, lazyLoadedStations, consecutiveEmptyBatches,
             christianStationsFetched, christianStationsCache>>

loaderState == <<currentOffset, isLoadingBatch, allStationsLoaded, lazyLoadedStations,
                 consecutiveEmptyBatches, christianStationsFetched,
                 christianStationsCache>>

\* the assignments of lines 523-529 (and of clearAllCaches, lines 53-59)
ResetLoaderState ==
    /\ currentOffset' = 0
    /\ isLoadingBatch' = FALSE
    /\ allStationsLoaded' = FALSE
    /\ lazyLoadedStations' = <<>>
    /\ consecutiveEmptyBatches' = 0
    /\ christianStationsFetched' = FALSE
    /\ christianStationsCache' = <<>>

\* A catalog read starts: layer 1, else the read of IndexedDB is awaited.
ReadStart ==
    /\ query.pc = "idle"
    /\ IF MemoryHit
       THEN /\ queryData' = memoryCache
            /\ lastRead' = "memory"
            /\ query' = query
       ELSE /\ query' = [IdleQuery EXCEPT !.pc = "idbRead"]
            /\ UNCHANGED <<queryData, lastRead>>
    /\ UNCHANGED <<globals, localStore, indexedDB, batches, now, source, lsWorks, idbWorks,
                   memCapturedAt, memWrittenBy, cycle>>
    /\ UNCHANGED <<clears, build, retiredStore, pureVars, storeVars, playerVars>>
    /\ refs' = IF MemoryHit THEN [refs EXCEPT !.data = refs.mem] ELSE refs

\* getFromIndexedDB answers: layer 2, else layer 3 (synchronous), else the
\* loader state is reset and the first page is requested.
IdbReadDone ==
    /\ query.pc = "idbRead"
    /\ LET idb == getFromIndexedDB
           ls == getCachedStations
       IN  IF idb # None /\ Len(idb[1]) > 0
           THEN /\ memoryCache' = idb
                /\ memoryCacheTimestamp' = now
                /\ memCapturedAt' = indexedDB[1].capturedAt
                /\ memWrittenBy' = indexedDB[1].version
                /\ queryData' = idb
                /\ lastRead' = "idb"
                /\ query' = IdleQuery
                /\ UNCHANGED <<loaderState, localStore, batches, cycle>>
           ELSE IF ls # None
           THEN /\ memoryCache' = ls
                /\ memoryCacheTimestamp' = now
                /\ memCapturedAt' = localStore[1].capturedAt
                /\ memWrittenBy' = localStore[1].version
                /\ localStore' = LocalStoreAfterGet
                /\ query' = [query EXCEPT !.pc = "lsBackfill", !.local = ls[1],
                                          !.cap = localStore[1].capturedAt]
                /\ UNCHANGED <<loaderState, queryData, lastRead, batches, cycle>>
           ELSE /\ ResetLoaderState
                /\ localStore' = LocalStoreAfterGet
                /\ batches' = MarkStale(batches, FALSE)
                /\ cycle' = FreshCycle
                /\ query' = [query EXCEPT !.pc = "coldFetch"]
                /\ UNCHANGED <<memoryCache, memoryCacheTimestamp, memCapturedAt, memWrittenBy,
                               queryData, lastRead>>
    /\ UNCHANGED <<indexedDB, now, source, lsWorks, idbWorks>>
    /\ UNCHANGED <<clears, build, retiredStore, pureVars, storeVars, playerVars>>
    /\ LET idb == getFromIndexedDB
           ls == getCachedStations
           read == NewArray(refs)
       IN  refs' = IF idb # None /\ Len(idb[1]) > 0
                   THEN [refs EXCEPT !.mem = read, !.data = read]
                   ELSE IF ls # None
                   THEN [refs EXCEPT !.mem = read, !.local = read]
                   ELSE [refs EXCEPT !.lazy = read]

\* layer 3 hit: await saveToIndexedDB(localStorageCache) returns
LsBackfillDone ==
    /\ query.pc = "lsBackfill"
    /\ indexedDB' = saveToIndexedDB(query.local, query.cap, FALSE)
    /\ queryData' = Some(query.local)
    /\ lastRead' = "ls"
    /\ query' = IdleQuery
    /\ UNCHANGED <<globals, localStore, batches, now, source, lsWorks, idbWorks, memCapturedAt, memWrittenBy, cycle>>
    /\ UNCHANGED <<clears, build, retiredStore, pureVars, storeVars, playerVars>>
    /\ refs' = [refs EXCEPT !.data = refs.local, !.local = NoRef]

\* layer 4: fetchBatchFromAPI(0, 200) returns
ColdFetchDone ==
    /\ query.pc = "coldFetch"
    /\ LET firstBatch == fetchBatchFromAPI(source, 0)
           validStations == ValidBatch(firstBatch)
           processedStations == processStations(validStations)
       IN  IF Len(firstBatch) = 0
           THEN /\ queryData' = Some(<<>>)
                /\ lastRead' = "failed"
                /\ query' = IdleQuery
                /\ UNCHANGED <<loaderState, localStore, cycle>>
           ELSE /\ lazyLoadedStations' = validStations
                /\ currentOffset' = PageSize
                /\ localStore' = setCachedStations(processedStations, now)
                /\ query' = [query EXCEPT !.pc = "coldSave",
                                          !.local = processedStations, !.cap = now]
                /\ cycle' = [cycle EXCEPT !.cold = TRUE, !.pages = {0}, !.saved = {0}]
                /\ UNCHANGED <<isLoadingBatch, allStationsLoaded,
                               consecutiveEmptyBatches, christianStationsFetched,
                               christianStationsCache, queryData, lastRead>>
    /\ UNCHANGED <<memoryCache, memoryCacheTimestamp, memCapturedAt, memWrittenBy, indexedDB,
                   batches, now, source, lsWorks, idbWorks>>
    /\ UNCHANGED <<clears, build, retiredStore, pureVars, storeVars, playerVars>>
    /\ refs' = IF Len(fetchBatchFromAPI(source, 0)) = 0
               THEN [refs EXCEPT !.data = NewArray(refs)]
               ELSE ColdStartArrays(refs)

\* layer 4: await saveToIndexedDB(processedStations) returns, memory is set
ColdSaveDone ==
    /\ query.pc = "coldSave"
    /\ indexedDB' = saveToIndexedDB(query.local, query.cap, FALSE)
    /\ memoryCache' = Some(query.local)
    /\ memoryCacheTimestamp' = now
    /\ memCapturedAt' = query.cap
    /\ memWrittenBy' = build
    /\ queryData' = Some(query.local)
    /\ lastRead' = "network"
    /\ query' = IdleQuery
    /\ UNCHANGED <<loaderState, localStore, batches, now, source, lsWorks, idbWorks, cycle>>
    /\ UNCHANGED <<clears, build, retiredStore, pureVars, storeVars, playerVars>>
    /\ refs' = [refs EXCEPT !.mem = refs.local, !.data = refs.local, !.local = NoRef]

---------------------------------------------------------------------------
(* loadNextBatch (lines 398-482), driven by the 3 s interval of every      *)
(* mounted useRadioStations (lines 584-620)                                *)

NewBatch == [pc |-> "fetch", offset |-> currentOffset, stale |-> FALSE,
             wiped |-> FALSE, local |-> <<>>, cap |-> 0]

\* placeholderData (lines 576-580), shown while the query has no data
placeholderData ==
    IF memoryCache # None THEN memoryCache[1]
    ELSE IF getCachedStations # None THEN getCachedStations[1]
    ELSE <<>>

\* query.data as the components see it
ShownData == IF queryData # None THEN queryData[1] ELSE placeholderData

\* the interval only runs while query.data is a non-empty list (line 585)
IntervalRuns == Len(ShownData) > 0

\* the guard of lines 598 and 399
TickGuard == ~isLoadingBatch /\ ~allStationsLoaded

\* An interval tick passes the guard: isLoadingBatch is set and the page at
\* currentOffset is requested.
Tick ==
    /\ IntervalRuns
    /\ TickGuard
    /\ Cardinality(batches) < MaxInFlight
    /\ isLoadingBatch' = TRUE
    /\ batches' = batches \cup {NewBatch}
    /\ UNCHANGED <<memoryCache, memoryCacheTimestamp, currentOffset, allStationsLoaded,
                   lazyLoadedStations, consecutiveEmptyBatches, christianStationsFetched,
                   christianStationsCache, localStore, indexedDB, queryData, query,
                   now, source, lsWorks, idbWorks, memCapturedAt, memWrittenBy, lastRead, cycle>>
    /\ UNCHANGED <<clears, build, retiredStore, pureVars, storeVars, playerVars>>
    /\ UNCHANGED refs

\* fetchBatchFromAPI(currentOffset, 200) of invocation b returns
FetchDone(b) ==
    /\ b \in batches
    /\ b.pc = "fetch"
    /\ LET batch == fetchBatchFromAPI(source, b.offset)
           validBatch == ValidBatch(batch)
           loaded == lazyLoadedStations \o validBatch
           processedStations == processStations(loaded)
       IN  IF Len(batch) = 0
           THEN /\ consecutiveEmptyBatches' = consecutiveEmptyBatches + 1
                /\ IF consecutiveEmptyBatches + 1 >= EmptyBatchLimit
                   THEN \* all loaded: fetchChristianStations() is awaited
                        /\ allStationsLoaded' = TRUE
                        /\ batches' = (batches \ {b}) \cup {[b EXCEPT !.pc = "feed"]}
                        /\ cycle' = [cycle EXCEPT !.doneAt = b.offset]
                        /\ UNCHANGED <<currentOffset, isLoadingBatch>>
                   ELSE \* try next offset
                        /\ currentOffset' = currentOffset + PageSize
                        /\ isLoadingBatch' = FALSE
                        /\ batches' = batches \ {b}
                        /\ UNCHANGED <<allStationsLoaded, cycle>>
                /\ UNCHANGED <<memoryCache, memoryCacheTimestamp, memCapturedAt, memWrittenBy,
                               lazyLoadedStations, localStore, queryData>>
           ELSE /\ consecutiveEmptyBatches' = 0
                /\ lazyLoadedStations' = loaded
                /\ currentOffset' = currentOffset + PageSize
                /\ memoryCache' = Some(processedStations)
                /\ memoryCacheTimestamp' = now
                /\ memCapturedAt' = now
                /\ memWrittenBy' = build
                /\ queryData' = Some(processedStations)
                /\ cycle' = [cycle EXCEPT
                                !.pages = @ \cup {b.offset},
                                !.saved = IF (currentOffset + PageSize) % SavePeriod = 0
                                          THEN cycle.pages \cup {b.offset} ELSE @]
                /\ IF (currentOffset + PageSize) % SavePeriod = 0
                   THEN \* periodic save: localStorage now, IndexedDB awaited
                        /\ localStore' = setCachedStations(processedStations, now)
                        /\ batches' = (batches \ {b}) \cup
                               {[b EXCEPT !.pc = "pageSave",
                                          !.local = processedStations, !.cap = now]}
                        /\ UNCHANGED isLoadingBatch
                   ELSE /\ isLoadingBatch' = FALSE
                        /\ batches' = batches \ {b}
                        /\ UNCHANGED localStore
                /\ UNCHANGED allStationsLoaded
    /\ UNCHANGED <<christianStationsFetched, christianStationsCache, indexedDB, query,
                   now, source, lsWorks, idbWorks, lastRead>>
    /\ UNCHANGED <<clears, build, retiredStore, pureVars, storeVars, playerVars>>
    /\ refs' = IF Len(fetchBatchFromAPI(source, b.offset)) = 0
               THEN refs
               ELSE PublishedArrays(refs)

\* a periodic save whose failed put leaves the invocation loading
PageSaveDone_stuck(b) ==
    /\ b \in batches
    /\ b.pc = "pageSave"
    /\ indexedDB' = saveToIndexedDB(b.local, b.cap, b.wiped)
    /\ isLoadingBatch' = ~idbWorks
    /\ batches' = batches \ {b}
    /\ UNCHANGED cycle
    /\ UNCHANGED <<memoryCache, memoryCacheTimestamp, currentOffset, allStationsLoaded,
                   lazyLoadedStations, consecutiveEmptyBatches, christianStationsFetched,
                   christianStationsCache, localStore, queryData, query, now, source, lsWorks, idbWorks,
                   memCapturedAt, memWrittenBy, lastRead>>
    /\ UNCHANGED <<clears, build, retiredStore, pureVars, storeVars, playerVars>>
    /\ UNCHANGED refs

\* the periodic await saveToIndexedDB(processedStations) returns; finally
PageSaveDone(b) ==
    /\ b \in batches
    /\ b.pc = "pageSave"
    /\ indexedDB' = saveToIndexedDB(b.local, b.cap, b.wiped)
    /\ isLoadingBatch' = FALSE
    /\ batches' = batches \ {b}
    /\ UNCHANGED cycle
    /\ UNCHANGED <<memoryCache, memoryCacheTimestamp, currentOffset, allStationsLoaded,
                   lazyLoadedStations, consecutiveEmptyBatches, christianStationsFetched,
                   christianStationsCache, localStore, queryData, query, now, source, lsWorks, idbWorks,
                   memCapturedAt, memWrittenBy, lastRead>>
    /\ UNCHANGED <<clears, build, retiredStore, pureVars, storeVars, playerVars>>
    /\ UNCHANGED refs

\* fetchChristianStations (lines 324-382): the cached feed, else the filtered
\* answer of the first mirror that answers, else []
FeedCached == christianStationsFetched /\ Len(christianStationsCache) > 0
\* the feed request no mirror answers
FeedDown(src) == src = "offline"
fetchChristianStations ==
    IF FeedCached THEN christianStationsCache
    ELSE IF ~FeedDown(source) THEN FeedFilter(Feed(source))
    ELSE <<>>

\* await fetchChristianStations() of invocation b returns: merge, publish,
\* localStorage; saveToIndexedDB is awaited
FeedDone(b) ==
    /\ b \in batches
    /\ b.pc = "feed"
    /\ LET christianStations == fetchChristianStations
           mergedStations == mergeStations(lazyLoadedStations, christianStations)
           processedStations == processStations(mergedStations)
       IN  /\ IF ~FeedCached /\ ~FeedDown(source)
              THEN /\ christianStationsFetched' = TRUE
                   /\ christianStationsCache' = christianStations
              ELSE UNCHANGED <<christianStationsFetched, christianStationsCache>>
           /\ memoryCache' = Some(processedStations)
           /\ memoryCacheTimestamp' = now
           /\ memCapturedAt' = now
           /\ memWrittenBy' = build
           /\ queryData' = Some(processedStations)
           /\ localStore' = setCachedStations(processedStations, now)
           /\ batches' = (batches \ {b}) \cup
                  {[b EXCEPT !.pc = "feedSave", !.local = processedStations, !.cap = now]}
           /\ cycle' = [cycle EXCEPT !.feeds = @ + (IF FeedCached THEN 0 ELSE 1),
                                      !.merged = TRUE, !.saved = cycle.pages]
    /\ UNCHANGED <<currentOffset, isLoadingBatch, allStationsLoaded, lazyLoadedStations,
                   consecutiveEmptyBatches, indexedDB, query, now, source, lsWorks, idbWorks, lastRead>>
    /\ UNCHANGED <<clears, build, retiredStore, pureVars, storeVars, playerVars>>
    /\ refs' = PublishedArrays(refs)

\* the final await saveToIndexedDB(processedStations) returns (lines 429-437)
FeedSaveDone(b) ==
    /\ b \in batches
    /\ b.pc = "feedSave"
    /\ indexedDB' = saveToIndexedDB(b.local, b.cap, b.wiped)
    /\ isLoadingBatch' = FALSE
    /\ batches' = batches \ {b}
    /\ UNCHANGED cycle
    /\ UNCHANGED <<memoryCache, memoryCacheTimestamp, currentOffset, allStationsLoaded,
                   lazyLoadedStations, consecutiveEmptyBatches, christianStationsFetched,
                   christianStationsCache, localStore, queryData, query, now, source, lsWorks, idbWorks,
                   memCapturedAt, memWrittenBy, lastRead>>
    /\ UNCHANGED <<clears, build, retiredStore, pureVars, storeVars, playerVars>>
    /\ UNCHANGED refs

---------------------------------------------------------------------------
(* clearAllCaches (lines 50-75) as called by TopToolbar.handleRefresh      *)

clearAllCaches ==
    /\ memoryCache' = None
    /\ memoryCacheTimestamp' = 0
    /\ ResetLoaderState
    /\ localStore' = None
    /\ indexedDB' = None

\* handleRefresh: the button is disabled while the query fetches; the caches
\* are cleared and invalidateQueries starts a read, whose layer 1 misses.  The
\* query keeps showing its data until that read returns; the removeQueries and
\* refetch that follow it are one more read.
Clear ==
    /\ query.pc = "idle"
    /\ clears < MaxClears
    /\ clearAllCaches
    /\ batches' = MarkStale(batches, TRUE)
    /\ query' = [IdleQuery EXCEPT !.pc = "idbRead", !.refresh = TRUE]
    /\ memCapturedAt' = 0
    /\ memWrittenBy' = 0
    /\ lastRead' = "none"
    /\ cycle' = FreshCycle
    /\ clears' = clears + 1
    /\ UNCHANGED <<queryData, now, source, lsWorks, idbWorks>>
    /\ UNCHANGED <<build, retiredStore, pureVars, storeVars, playerVars>>
    /\ refs' = [refs EXCEPT !.mem = NoRef, !.lazy = NewArray(refs)]

\* The page is loaded anew: module globals start over, running invocations
\* are gone, the durable tiers stay.
Reload ==
    /\ memoryCache' = None
    /\ memoryCacheTimestamp' = 0
    /\ ResetLoaderState
    /\ queryData' = None
    /\ batches' = {}
    /\ query' = IdleQuery
    /\ memCapturedAt' = 0
    /\ memWrittenBy' = 0
    /\ lastRead' = "none"
    /\ cycle' = FreshCycle
    /\ UNCHANGED <<localStore, indexedDB, now, source, lsWorks, idbWorks>>
    /\ UNCHANGED <<clears, build, retiredStore, pureVars, storeVars, playerVars>>
    /\ refs' = InitRefs

\* openDB of a build with a higher INDEXEDDB_VERSION: the database of that
\* name is upgraded, and onupgradeneeded creates the object store only if it is
\* missing, so a store of that name keeps its records.
UpgradedDB(db, from, to) ==
    IF INDEXEDDB_NAME(from) = INDEXEDDB_NAME(to) /\ STORE_NAME(from) = STORE_NAME(to)
    THEN db
    ELSE None

\* localStorage as the build with cache version `to` addresses it
KeysShared(from, to) ==
    CACHE_KEY(from) = CACHE_KEY(to) /\ CACHE_TIMESTAMP_KEY(from) = CACHE_TIMESTAMP_KEY(to)

\* The build with the bumped cache version is deployed and the page loads it:
\* module globals start over, running invocations are gone, the durable tiers
\* are what the earlier build left.
Deploy ==
    /\ build = INDEXEDDB_VERSION
    /\ build' = BumpedVersion
    /\ memoryCache' = None
    /\ memoryCacheTimestamp' = 0
    /\ ResetLoaderState
    /\ queryData' = None
    /\ batches' = {}
    /\ query' = IdleQuery
    /\ memCapturedAt' = 0
    /\ memWrittenBy' = 0
    /\ lastRead' = "none"
    /\ cycle' = FreshCycle
    /\ localStore' = IF KeysShared(build, BumpedVersion) THEN localStore ELSE None
    /\ retiredStore' = IF KeysShared(build, BumpedVersion) THEN retiredStore ELSE localStore
    /\ indexedDB' = UpgradedDB(indexedDB, build, BumpedVersion)
    /\ UNCHANGED <<now, source, lsWorks, idbWorks>>
    /\ UNCHANGED <<clears, pureVars, storeVars, playerVars>>
    /\ refs' = InitRefs

\* The network goes down: from now on no mirror answers a request.
Offline ==
    /\ source # "offline"
    /\ source' = "offline"
    /\ UNCHANGED <<globals, localStore, indexedDB, queryData, batches, query, now,
                   lsWorks, idbWorks, memCapturedAt, memWrittenBy, lastRead, cycle>>
    /\ UNCHANGED <<clears, build, retiredStore, pureVars, storeVars, playerVars>>
    /\ UNCHANGED refs

\* The clock moves on by half a cache duration.  Every await of the program
\* ends within seconds (15 s per mirror), so this much time only passes
\* between invocations.
AdvanceTime ==
    /\ query.pc = "idle"
    /\ batches = {}
    /\ now < (MaxTicks + 1) * TimeStep
    /\ now' = now + TimeStep
    /\ UNCHANGED <<globals, localStore, indexedDB, queryData, batches, query, source, lsWorks, idbWorks,
                   memCapturedAt, memWrittenBy, lastRead, cycle>>
    /\ UNCHANGED <<clears, build, retiredStore, pureVars, storeVars, playerVars>>
    /\ UNCHANGED refs

\* catalog reads
Reads ==
    \/ ReadStart
    \/ IdbReadDone
    \/ LsBackfillDone
    \/ ColdFetchDone
    \/ ColdSaveDone

\* the paging loop up to the final merge
Paging ==
    \/ Tick
    \/ \E b \in batches : FetchDone(b)
    \/ \E b \in batches : FeedDone(b)
    \/ \E b \in batches : FeedSaveDone(b)

PeriodicSave == \E b \in batches : PageSaveDone(b)

\* Tiered cache and loader over a directory of one page (or of one page with
\* no valid station), with page reloads and the clock.
Next ==
    \/ Reads
    \/ Paging
    \/ Reload
    \/ AdvanceTime

Spec == Init /\ [][Next]_vars

\* The loader over directories of several pages, with page reloads and the
\* loss of the network.
InitLoader == LoaderInit({"three", "gap"}, BOOLEAN) /\ PlayerInit /\ StoreInit /\ IdleCall

NextLoader ==
    \/ Reads
    \/ Paging
    \/ PeriodicSave
    \/ Reload
    \/ Offline

SpecLoader == InitLoader /\ [][NextLoader]_vars

\* The loader, uninterrupted and with working stores, over directories of
\* more than five pages one of which no mirror answers.
InitPeriodic == LoaderInit({"gap", "late"}, {TRUE}) /\ PlayerInit /\ StoreInit /\ IdleCall

NextPeriodic ==
    \/ ReadStart
    \/ IdbReadDone
    \/ ColdFetchDone
    \/ ColdSaveDone
    \/ Paging
    \/ PeriodicSave

SpecPeriodic == InitPeriodic /\ [][NextPeriodic]_vars

\* The loader with the user's refresh (clearAllCaches), working stores.
InitRefresh == LoaderInit({"one"}, {TRUE}) /\ PlayerInit /\ StoreInit /\ IdleCall

NextRefresh ==
    \/ Reads
    \/ Paging
    \/ Clear

SpecRefresh == InitRefresh /\ [][NextRefresh]_vars

\* A cache version bump: the version-6 build runs, then the version-7 build is
\* deployed and followed through the cache layers of its catalog read (lines
\* 1216-1240, the code of lines 493-517), which is as far as an entry of the
\* earlier build can be read.
InitUpgrade == LoaderInit({"one"}, BOOLEAN) /\ PlayerInit /\ StoreInit /\ IdleCall

CacheLayers ==
    \/ ReadStart
    \/ IdbReadDone
    \/ LsBackfillDone

NextUpgrade ==
    \/ (build = INDEXEDDB_VERSION /\ (Reads \/ Paging))
    \/ Deploy
    \/ (build = BumpedVersion /\ CacheLayers)
    \/ AdvanceTime

SpecUpgrade == InitUpgrade /\ [][NextUpgrade]_vars

---------------------------------------------------------------------------
(* AudioPlayer (part_005 lines 208-462)                                    *)

maxRetries == 10
baseRetryDelay == 2000
MaxRetryDelay == 30000

Min(a, b) == IF a < b THEN a ELSE b

\* a backoff that grows by the base delay per attempt
RetryDelay_linear(n) == Min(baseRetryDelay * n, MaxRetryDelay)

\* line 346: Math.min(baseRetryDelay * Math.pow(2, retryCount - 1), 30000)
RetryDelay(n) == Min(baseRetryDelay * 2 ^ (n - 1), MaxRetryDelay)

UnableToConnect == "Unable to connect to stream"

\* the stations a user can select: the stream of "dead" fails on every load
PlayerStations == {"dead", "live"}
DeadStreams == {"dead"}

\* the handlers of the connection touch neither the loader nor the volume
loaderUnchanged == UNCHANGED <<loaderVars, pureVars, storeVars, soundVars>>

\* audio.pause(): a playing element becomes paused and its pause event runs
\* handlePause (lines 304-307)
PauseAudio(playing) ==
    /\ paused' = TRUE
    /\ isPlaying' = IF paused THEN playing ELSE FALSE

\* attemptReconnect without the test of line 336
attemptReconnect_unbounded(err) ==
    IF currentStation = NoStation
    THEN /\ error' = err
         /\ UNCHANGED <<isPlaying, isReconnecting, retryCount, retryTimer>>
    ELSE /\ isReconnecting' = TRUE
         /\ retryCount' = retryCount + 1
         /\ retryTimer' = Some(RetryDelay(retryCount + 1))
         /\ error' = err
         /\ UNCHANGED isPlaying

\* attemptReconnect (lines 333-369) up to setTimeout; err is the error state
\* the caller leaves
attemptReconnect(err) ==
    IF currentStation = NoStation
    THEN /\ error' = err
         /\ UNCHANGED <<isPlaying, isReconnecting, retryCount, retryTimer>>
    ELSE IF retryCount >= maxRetries
    THEN /\ error' = Some(UnableToConnect)
         /\ isPlaying' = FALSE
         /\ UNCHANGED <<isReconnecting, retryCount, retryTimer>>
    ELSE /\ isReconnecting' = TRUE
         /\ retryCount' = retryCount + 1
         /\ retryTimer' = Some(RetryDelay(retryCount + 1))
         /\ error' = err
         /\ UNCHANGED isPlaying

\* handleError (lines 274-281)
handleError ==
    IF ~isReconnecting THEN attemptReconnect(error)
    ELSE UNCHANGED <<error, isPlaying, isReconnecting, retryCount, retryTimer>>

\* handleStalled (lines 283-288)
handleStalled ==
    IF ~isReconnecting /\ playbackStarted THEN attemptReconnect(error)
    ELSE UNCHANGED <<error, isPlaying, isReconnecting, retryCount, retryTimer>>

\* the station effect (lines 379-402): a new station is selected
SelectStation(s) ==
    /\ s # station
    /\ station' = s
    /\ retryTimer' = None
    /\ retryCount' = 0
    /\ playbackStarted' = FALSE
    /\ isReconnecting' = FALSE
    /\ currentStation' = s
    /\ PauseAudio(isPlaying)
    /\ audioSrc' = s
    /\ error' = None
    /\ media' = "loading"
    /\ UNCHANGED reloadTimer
    /\ loaderUnchanged

\* the element's error event while it loads its source
LoadFails ==
    /\ media = "loading"
    /\ media' = "broken"
    /\ handleError
    /\ UNCHANGED <<station, reloadTimer, playbackStarted, currentStation, audioSrc, paused>>
    /\ loaderUnchanged

\* canplay: handleCanPlay (lines 253-272) calls audio.play()
LoadReady ==
    /\ media = "loading"
    /\ audioSrc \notin DeadStreams
    /\ retryCount' = 0
    /\ isReconnecting' = FALSE
    /\ paused' = FALSE
    /\ media' = "ready"
    /\ UNCHANGED <<station, isPlaying, error, retryTimer, reloadTimer, playbackStarted,
                   currentStation, audioSrc>>
    /\ loaderUnchanged

\* play() resolves (lines 261-266) and the playing event runs handlePlaying
\* (lines 295-302)
PlayStarts ==
    /\ media = "ready"
    /\ media' = "playing"
    /\ isPlaying' = TRUE
    /\ playbackStarted' = TRUE
    /\ error' = None
    /\ retryCount' = 0
    /\ isReconnecting' = FALSE
    /\ UNCHANGED <<station, retryTimer, reloadTimer, currentStation, audioSrc, paused>>
    /\ loaderUnchanged

\* play() rejects (lines 267-270)
PlayRejected ==
    /\ media = "ready"
    /\ media' = "stopped"
    /\ paused' = TRUE
    /\ attemptReconnect(error)
    /\ UNCHANGED <<station, reloadTimer, playbackStarted, currentStation, audioSrc>>
    /\ loaderUnchanged

\* the stalled event
Stalled ==
    /\ media \in {"loading", "ready", "playing"}
    /\ handleStalled
    /\ UNCHANGED <<station, reloadTimer, playbackStarted, currentStation, audioSrc, paused,
                   media>>
    /\ loaderUnchanged

\* the error event of a stream that had become ready
StreamError ==
    /\ media \in {"ready", "playing"}
    /\ media' = "broken"
    /\ handleError
    /\ UNCHANGED <<station, reloadTimer, playbackStarted, currentStation, audioSrc, paused>>
    /\ loaderUnchanged

\* handleEnded (lines 290-293)
Ended ==
    /\ media = "playing"
    /\ media' = "stopped"
    /\ isPlaying' = FALSE
    /\ playbackStarted' = FALSE
    /\ UNCHANGED <<station, error, retryCount, retryTimer, reloadTimer, isReconnecting,
                   currentStation, audioSrc, paused>>
    /\ loaderUnchanged

\* the retry timer fires (lines 355-368).  A retry timer is set at least
\* 2000 ms after the one before it fired, so no 100 ms timer is pending.
RetryFires ==
    /\ retryTimer # None
    /\ reloadTimer = None
    /\ retryTimer' = None
    /\ IF currentStation = NoStation
       THEN UNCHANGED <<isPlaying, paused, audioSrc, media, reloadTimer>>
       ELSE /\ PauseAudio(isPlaying)
            /\ audioSrc' = ""
            /\ media' = "emptied"
            /\ reloadTimer' = Some(currentStation)
    /\ UNCHANGED <<station, error, retryCount, playbackStarted, isReconnecting,
                   currentStation>>
    /\ loaderUnchanged

\* the error event an element fires for src = ''
EmptySrcError ==
    /\ media = "emptied"
    /\ media' = "empty"
    /\ handleError
    /\ UNCHANGED <<station, reloadTimer, playbackStarted, currentStation, audioSrc, paused>>
    /\ loaderUnchanged

\* the 100 ms timer fires (lines 363-367)
ReloadFires ==
    /\ reloadTimer # None
    /\ reloadTimer' = None
    /\ IF currentStation = NoStation
       THEN UNCHANGED <<audioSrc, media, paused>>
       ELSE /\ audioSrc' = reloadTimer[1]
            /\ media' = "loading"
            /\ paused' = TRUE
    /\ UNCHANGED <<station, isPlaying, error, retryCount, retryTimer, playbackStarted,
                   isReconnecting, currentStation>>
    /\ loaderUnchanged

\* togglePlay while playing (lines 407-409)
TogglePause ==
    /\ station # NoStation
    /\ isPlaying
    /\ paused' = TRUE
    /\ isPlaying' = FALSE
    /\ media' = IF media \in {"ready", "playing"} THEN "stopped" ELSE media
    /\ UNCHANGED <<station, error, retryCount, retryTimer, reloadTimer, playbackStarted,
                   isReconnecting, currentStation, audioSrc>>
    /\ loaderUnchanged

\* togglePlay while not playing, play() resolves (lines 411-415), and the
\* playing event runs handlePlaying
ManualPlayStarts ==
    /\ station # NoStation
    /\ ~isPlaying
    /\ media = "stopped"
    /\ media' = "playing"
    /\ paused' = FALSE
    /\ isPlaying' = TRUE
    /\ playbackStarted' = TRUE
    /\ error' = None
    /\ retryCount' = 0
    /\ isReconnecting' = FALSE
    /\ UNCHANGED <<station, retryTimer, reloadTimer, currentStation, audioSrc>>
    /\ loaderUnchanged

\* togglePlay while not playing, play() rejects (lines 416-419)
ManualPlayRejected ==
    /\ station # NoStation
    /\ ~isPlaying
    /\ media \in {"stopped", "broken", "empty", "emptied"}
    /\ attemptReconnect(None)
    /\ UNCHANGED <<station, reloadTimer, playbackStarted, currentStation, audioSrc, paused,
                   media>>
    /\ loaderUnchanged

\* handleClose (lines 450-462); the parent sets the station prop to null
Close ==
    /\ station # NoStation
    /\ paused' = TRUE
    /\ isPlaying' = FALSE
    /\ media' = IF media \in {"ready", "playing"} THEN "stopped" ELSE media
    /\ retryTimer' = None
    /\ currentStation' = NoStation
    /\ station' = NoStation
    /\ UNCHANGED <<error, retryCount, reloadTimer, playbackStarted, isReconnecting, audioSrc>>
    /\ loaderUnchanged

InitPlayer == LoaderInit({"one"}, {TRUE}) /\ PlayerInit /\ StoreInit /\ IdleCall

NextPlayer ==
    \/ \E s \in PlayerStations : SelectStation(s)
    \/ LoadFails
    \/ LoadReady
    \/ PlayStarts
    \/ PlayRejected
    \/ Stalled
    \/ StreamError
    \/ Ended
    \/ RetryFires
    \/ EmptySrcError
    \/ ReloadFires
    \/ TogglePause
    \/ ManualPlayStarts
    \/ ManualPlayRejected
    \/ Close

SpecPlayer == InitPlayer /\ [][NextPlayer]_vars

\* positions the volume slider is dragged to
SliderValues == {0, 30, 100}

\* the connection state of the player
connectionVars == <<station, isPlaying, error, retryCount, retryTimer, reloadTimer,
                    playbackStarted, isReconnecting, currentStation, audioSrc, paused,
                    media>>

\* the volume effect (lines 371-376), run after a render in which volume or
\* isMuted changed
VolumeEffect_volumeOnly(muted, v) ==
    audioVolume' = IF v = volume THEN audioVolume
                   ELSE IF muted THEN 0 ELSE v

VolumeEffect(muted, v) ==
    audioVolume' = IF <<v, muted>> = <<volume, isMuted>> THEN audioVolume
                   ELSE IF muted THEN 0 ELSE v

\* toggleMute (lines 423-431); the controls are rendered only for a station
toggleMute ==
    /\ station # NoStation
    /\ IF isMuted
       THEN /\ isMuted' = FALSE
            /\ volume' = IF previousVolume > 0 THEN previousVolume ELSE DefaultVolume
            /\ UNCHANGED previousVolume
       ELSE /\ previousVolume' = volume
            /\ isMuted' = TRUE
            /\ UNCHANGED volume
    /\ VolumeEffect(isMuted', volume')
    /\ UNCHANGED <<connectionVars, loaderVars, pureVars, storeVars>>

\* handleVolumeChange (lines 433-442)
handleVolumeChange(newVolume) ==
    /\ station # NoStation
    /\ volume' = newVolume
    /\ isMuted' = IF newVolume = 0 THEN TRUE
                  ELSE IF newVolume > 0 /\ isMuted THEN FALSE
                  ELSE isMuted
    /\ VolumeEffect(isMuted', volume')
    /\ UNCHANGED <<previousVolume, connectionVars, loaderVars, pureVars, storeVars>>

\* The player with its volume controls.
NextSound ==
    \/ NextPlayer
    \/ toggleMute
    \/ \E v \in SliderValues : handleVolumeChange(v)

SpecSound == InitPlayer /\ [][NextSound]_vars

---------------------------------------------------------------------------
(* The pure functions of useQueries.ts (lines 134-236, 385-395), each      *)
(* called once on arguments drawn from bounded sets.                       *)

\* longest list handed to a function
MaxLen == 3

\* all sequences over S of length at most n
ListsUpTo(S, n) == UNION {[1..k -> S] : k \in 0..n}

\* raw directory records around every limit of the validity rules
LatValues == {None, NaN, Some(-900001), Some(-900000), Some(0), Some(123456),
              Some(900000), Some(900001)}
LongValues == {None, NaN, Some(-1800001), Some(-1800000), Some(0), Some(1800000),
               Some(1800001)}
BitrateValues == {0, 1, MinBitrate - 1, MinBitrate, 128}
RawStations ==
    {St(1, lat, lng, 1, 1, rate, "english", res, raw, ctry) :
        lat \in LatValues, lng \in LongValues, rate \in BitrateValues,
        res \in {"", "r"}, raw \in {"", "u"}, ctry \in {"", "IN"}}

\* valid records that meet in coordinate keys, scores and identifiers
dA  == St(1, Some(100000), Some(200000), 5, 0, 0, "english", "ra", "", "IN")
\* same key and score as dA
dB  == St(2, Some(100004), Some(200000), 4, 2, 0, "english", "rb", "", "IN")
\* same key as dA, higher score
dC  == St(3, Some(99996), Some(200000), 6, 0, 0, "english", "rc", "", "IN")
\* station 1 as another mirror serves it: another stream URL
dA2 == St(1, Some(100000), Some(200000), 5, 0, 0, "english", "ra2", "", "IN")
\* station 2 as another mirror serves it: other coordinates
dB2 == St(2, Some(300000), Some(200000), 4, 2, 0, "english", "rb", "", "IN")
\* just south and just north of the equator, same longitude
dS  == St(4, Some(-4), Some(900000), 1, 0, 0, "english", "rs", "", "EC")
dN  == St(5, Some(4), Some(900000), 2, 0, 0, "english", "rn", "", "EC")

ValidPool == {dA, dB, dC, dA2, dB2, dS, dN}

\* records of a primary and a secondary list: sE and sE2 share an identifier
MergePool == {sA, sE, sE2}

\* what a mirror can do with a request: each failure, and three bodies
MirrorAnswerPool ==
    {Answer(k, <<>>) : k \in FailureKinds}
    \cup {Answer("array", body) : body \in {<<>>, <<sA>>, <<sB, sC>>}}

\* catalogs the App is handed, and the station it has selected: sG is in
\* none of them
NavPool == {sA, sB, sE}

\* stations.findIndex(s => s.stationuuid === selected.stationuuid), 0-based
findIndex(stations, selected) ==
    IF \E i \in 1..Len(stations) : stations[i].stationuuid = selected.stationuuid
    THEN (CHOOSE i \in 1..Len(stations) :
            /\ stations[i].stationuuid = selected.stationuuid
            /\ \A j \in 1..(i - 1) : stations[j].stationuuid # selected.stationuuid) - 1
    ELSE 0 - 1

\* stations[index]: <<element>>, or <<>> for undefined
ArrayAt(stations, index) ==
    IF index >= 0 /\ index < Len(stations) THEN <<stations[index + 1]>> ELSE <<>>

\* handleNextStation (backend.d.ts lines 186-195): the value handed to
\* setSelectedStation, the selection as it was on the early return
handleNextStation(stations, selected) ==
    IF Len(stations) = 0 THEN <<selected>>
    ELSE LET currentIndex == findIndex(stations, selected)
             nextIndex == (currentIndex + 1) % Len(stations)
         IN  ArrayAt(stations, nextIndex)

\* handlePreviousStation (backend.d.ts lines 197-206)
handlePreviousStation(stations, selected) ==
    IF Len(stations) = 0 THEN <<selected>>
    ELSE LET currentIndex == findIndex(stations, selected)
             prevIndex == IF currentIndex = 0 THEN Len(stations) - 1 ELSE currentIndex - 1
         IN  ArrayAt(stations, prevIndex)

Calls ==
    {[fn |-> "filter", a |-> <<s>>, b |-> <<>>] : s \in RawStations}
    \cup {[fn |-> f, a |-> l, b |-> <<s>>] :
            f \in {"next", "previous"}, l \in ListsUpTo(NavPool, MaxLen),
            s \in NavPool \cup {sG}}
    \cup {[fn |-> f, a |-> l, b |-> <<>>] :
            f \in {"dedup", "process"}, l \in ListsUpTo(ValidPool, MaxLen)}
    \cup {[fn |-> "merge", a |-> l, b |-> m] :
            l \in ListsUpTo(MergePool, MaxLen), m \in ListsUpTo(MergePool, MaxLen)}
    \cup {[fn |-> "fetch", a |-> answers, b |-> <<>>] :
            answers \in [1..Len(servers) -> MirrorAnswerPool]}

InitPure == LoaderInit({"one"}, {TRUE}) /\ PlayerInit /\ StoreInit /\ call \in Calls /\ ret = None

Returns(f, result) ==
    /\ call.fn = f
    /\ ret = None
    /\ ret' = Some(result)
    /\ UNCHANGED <<call, loaderVars, playerVars, storeVars>>

\* allStations.filter(...) of processStations (lines 200-220)
CallFilter == Returns("filter", SelectSeq(call.a, IsValidStation))
CallDedup == Returns("dedup", deduplicateByCoordinates(call.a))
CallProcess == Returns("process", processStations(call.a))
CallMerge == Returns("merge", mergeStations(call.a, call.b))
\* fetchBatchFromAPI (lines 281-321) against mirrors that answer as call.a says
CallFetch == Returns("fetch", FetchFrom(call.a, 1))

\* the next and previous buttons of the player
CallNext == Returns("next", handleNextStation(call.a, call.b[1]))
CallPrevious == Returns("previous", handlePreviousStation(call.a, call.b[1]))

NextPure ==
    \/ CallNext
    \/ CallPrevious
    \/ CallFilter
    \/ CallDedup
    \/ CallProcess
    \/ CallMerge
    \/ CallFetch

SpecPure == InitPure /\ [][NextPure]_vars

---------------------------------------------------------------------------
(* Loader completion                                                       *)

\* the thematic feed as fetchChristianStations hands it to the merge: the
\* feed already held, else the filtered answer of the mirrors (none when
\* they are out of reach)
SecondaryFeed ==
    IF FeedCached THEN christianStationsCache ELSE FeedFilter(Feed(source))

\* the stations of the non-empty pages and of the feed that the validity
\* rules admit, each counted once per coordinate key
ExpectedKeys ==
    LET all == Page(source, 0) \o Page(source, 200) \o Page(source, 400) \o SecondaryFeed
    IN  {CoordKey(all[i]) : i \in {j \in 1..Len(all) :
                                       hasValidCoordinates(all[j]) /\ IsValidStation(all[j])}}

FinalCatalog == processStations(deduplicateByUUID(lazyLoadedStations \o SecondaryFeed))

PageFetches(bs) == {b \in bs : b.pc = "fetch"}

\* C1: in a load cycle begun by a cold start, the third consecutive empty
\* batch sets allStationsLoaded; the thematic feed is then requested exactly
\* once, merged with lazyLoadedStations by stationuuid, and the processed
\* catalog is published to memoryCache and to the query's subscribers and
\* written to localStorage and (when the awaited put returns) to IndexedDB,
\* wherever the store takes the write; no page is requested after completion.
\* With pages at 0, 200, 400 and empty pages after them the cycle completes on
\* the fetch at offset 1000 and the catalog has one station per coordinate
\* key of the valid stations of the three pages and the feed.
C1_Step ==
    cycle'.cold =>
      /\ (consecutiveEmptyBatches' >= EmptyBatchLimit) = allStationsLoaded'
      /\ cycle'.feeds <= 1
      /\ (allStationsLoaded /\ allStationsLoaded')
            => PageFetches(batches') \subseteq PageFetches(batches)
      /\ (~cycle.merged /\ cycle'.merged) =>
            /\ allStationsLoaded
            /\ cycle'.feeds = 1
            /\ memoryCache' = Some(FinalCatalog)
            /\ queryData' = Some(FinalCatalog)
            /\ lsWorks => (localStore' # None /\ localStore'[1].stations = FinalCatalog)
            /\ source = "three" => Len(memoryCache'[1]) = Cardinality(ExpectedKeys)
      /\ (cycle.merged /\ batches # {} /\ batches' = {} /\ idbWorks) =>
            (indexedDB' # None /\ indexedDB'[1].stations = FinalCatalog)
      /\ (source = "three" /\ allStationsLoaded') =>
            (cycle'.doneAt = 1000 /\ cycle'.pages = {0, 200, 400})

C1_LoaderCompletion == [][C1_Step]_vars

C1_Witness ==
    /\ source = "three"
    /\ cycle.cold
    /\ cycle.merged
    /\ cycle.doneAt = 1000
    /\ batches = {}
    /\ memoryCache # None
    /\ Len(memoryCache[1]) = 4
    /\ localStore # None /\ localStore[1].stations = memoryCache[1]
    /\ indexedDB # None /\ indexedDB[1].stations = memoryCache[1]

---------------------------------------------------------------------------
(* Reconnect backoff                                                       *)

\* C2 (as claimed): while the selected station's stream fails on every load,
\* each failed load leaves a reload scheduled (attempts 1 to 10) or, after
\* the 10th, the session Failed: 'Unable to connect to stream' is reported and
\* isPlaying is false.
C2_RetriesUntilFailed ==
    (currentStation \in DeadStreams /\ ~playbackStarted /\ media = "broken") =>
        \/ retryTimer # None
        \/ reloadTimer # None
        \/ (error = Some(UnableToConnect) /\ ~isPlaying)

BackoffTable == <<2000, 4000, 8000, 16000, 30000, 30000, 30000, 30000, 30000, 30000>>

\* C3: the reload scheduled when retryCount is incremented to n (1..10) has
\* delay min(2000 * 2^(n-1), 30000) ms: 2000, 4000, 8000, 16000, then 30000.
C3_Step ==
    (retryCount' = retryCount + 1) =>
        /\ retryCount' \in 1..10
        /\ retryTimer' = Some(BackoffTable[retryCount'])

C3_BackoffDelay == [][C3_Step]_vars

C3_Witness == retryCount = 10 /\ retryTimer = Some(30000) /\ isReconnecting

\* C4 (as claimed): once a station has played, a reload that fails again
\* leaves the next reload of the backoff series scheduled (4000 ms after the
\* first, 8000 ms after the second), so that a later ready reload ends in
\* Playing with retryCount 0 and isReconnecting false.
C4_StallRecovers ==
    (currentStation # NoStation /\ playbackStarted /\ media = "broken" /\ error = None) =>
        /\ isReconnecting
        /\ retryCount \in 1..10
        /\ retryTimer = Some(BackoffTable[retryCount])

---------------------------------------------------------------------------
(* Refresh while the loader runs                                           *)

\* C5 (as claimed): at most one page fetch of loadNextBatch is in flight.
C5_OnePageInFlight == Cardinality(PageFetches(batches)) <= 1

\* C6 (as claimed): a page fetch that was in flight when the caches were
\* cleared or a cold start reset the loader changes nothing when it returns:
\* not lazyLoadedStations, currentOffset, consecutiveEmptyBatches, nor what is
\* published or persisted.
C6_Step ==
    \A b \in batches :
        (b.stale /\ b.pc = "fetch" /\ FetchDone(b)) =>
            UNCHANGED <<lazyLoadedStations, currentOffset, consecutiveEmptyBatches,
                        allStationsLoaded, memoryCache, queryData, localStore, indexedDB>>

C6_StaleFetchDiscarded == [][C6_Step]_vars

\* C7 (as claimed): clearAllCaches leaves the loader globals initial and all
\* three tiers without an entry, and the read that follows it finds no entry
\* in any tier and goes to the network.
C7_Step ==
    /\ Clear =>
          /\ memoryCache' = None
          /\ localStore' = None
          /\ indexedDB' = None
          /\ currentOffset' = 0
          /\ lazyLoadedStations' = <<>>
          /\ consecutiveEmptyBatches' = 0
          /\ ~isLoadingBatch'
          /\ ~allStationsLoaded'
          /\ ~christianStationsFetched'
          /\ christianStationsCache' = <<>>
    /\ (IdbReadDone /\ query.refresh) =>
          /\ indexedDB = None
          /\ localStore = None
          /\ query'.pc = "coldFetch"

C7_ClearThenColdStart == [][C7_Step]_vars

---------------------------------------------------------------------------
(* Tiered cache                                                            *)

\* the expiry rule: an entry stamped ts is valid while now - ts < 45 min
AgeValid(ts) == now - ts < CACHE_DURATION

IdbValid == indexedDB # None /\ AgeValid(indexedDB[1].timestamp)
LsValid == localStore # None /\ AgeValid(localStore[1].timestamp)

\* what a read that missed memory must do given the entry it finds: hitIdb /
\* hitLs say which durable tier holds the entry to serve
ReadThrough(hitIdb, hitLs) ==
    /\ (IdbReadDone /\ hitIdb) =>
          /\ queryData' = Some(indexedDB[1].stations)
          /\ query'.pc = "idle"
          /\ memoryCache' = queryData'
          /\ MemoryHit'
    /\ (IdbReadDone /\ ~hitIdb /\ hitLs) =>
          /\ query'.pc = "lsBackfill"
          /\ query'.local = localStore[1].stations
          /\ memoryCache' = Some(localStore[1].stations)
          /\ MemoryHit'
    /\ LsBackfillDone =>
          /\ queryData' = Some(query.local)
          /\ MemoryHit'
          /\ idbWorks => (indexedDB' # None /\ indexedDB'[1].stations = query.local
                            /\ IdbFresh(indexedDB'[1]))
    /\ (ReadStart /\ MemoryHit) =>
          /\ queryData' = memoryCache
          /\ query'.pc = "idle"
          /\ UNCHANGED <<localStore, indexedDB, lazyLoadedStations, currentOffset>>

\* C8 (as claimed): a read that misses memory and finds a valid entry in a
\* durable tier returns that entry's stations and backfills the faster tiers,
\* and the next read is served from memory.
C8_AnyValidEntry == [][ReadThrough(IdbValid, LsValid)]_vars

\* C8: a read that misses memory and finds a valid entry with at least one
\* station in IndexedDB, or else in localStorage, returns that entry's
\* stations; memory is backfilled (and IndexedDB on a localStorage hit, when
\* it takes the write), and a read that follows at once is served from memory
\* without touching a durable tier or the network.
C8_ReadThrough ==
    [][ReadThrough(IdbValid /\ Len(indexedDB[1].stations) > 0,
                   LsValid /\ Len(localStore[1].stations) > 0)]_vars

C8_Witness ==
    /\ lastRead = "ls"
    /\ idbWorks
    /\ MemoryHit
    /\ Len(memoryCache[1]) > 0
    /\ queryData = memoryCache
    /\ indexedDB # None
    /\ indexedDB[1].stations = memoryCache[1]

\* C9 (as claimed): every read served from a tier returns a list captured
\* less than 45 minutes ago, whichever way the list reached that tier.
C9_Step ==
    /\ (ReadStart /\ MemoryHit) => now - memCapturedAt < CACHE_DURATION
    /\ (IdbReadDone /\ query'.pc = "idle") => now - indexedDB[1].capturedAt < CACHE_DURATION
    /\ (IdbReadDone /\ query'.pc = "lsBackfill")
          => now - localStore[1].capturedAt < CACHE_DURATION

C9_ServedWithinWindow == [][C9_Step]_vars

\* C10 (as claimed): each tier takes its entry for valid exactly when
\* now - timestamp < 45 minutes, also at an age of exactly 45 minutes.
C10_OneExpiryRule ==
    /\ memoryCache # None => (MemoryHit = AgeValid(memoryCacheTimestamp))
    /\ indexedDB # None => (IdbFresh(indexedDB[1]) = AgeValid(indexedDB[1].timestamp))
    /\ localStore # None => ((~LsExpired(localStore[1])) = AgeValid(localStore[1].timestamp))

---------------------------------------------------------------------------
(* The backend actor (backend/main.mo): three maps keyed by the caller's   *)
(* principal behind the checks of AccessControl                            *)

\* AccessControl.hasPermission: an admin holds every capability, a user the
\* user capability, a guest neither
hasPermission(caller, capability) ==
    \/ userRoles[caller] = "admin"
    \/ (capability = "user" /\ userRoles[caller] = "user")

\* AccessControl.isAdmin
isAdmin(caller) == userRoles[caller] = "admin"

storeUnchanged == UNCHANGED <<loaderVars, playerVars, pureVars>>

maps == <<userProfiles, userStats, channelStatus>>

\* Runtime.trap: the call fails and the state is as before the call
Trap(op, caller, user) ==
    /\ reply' = [op |-> op, caller |-> caller, user |-> user, ok |-> FALSE, value |-> None]
    /\ UNCHANGED <<maps, userRoles>>

\* the call returns value
Replies(op, caller, user, value) ==
    reply' = [op |-> op, caller |-> caller, user |-> user, ok |-> TRUE, value |-> value]

\* Map.toArray: the entries in key order
principalOrder == <<"alice", "bob", "root">>
toArray(map) ==
    LET present == SelectSeq(principalOrder, LAMBDA p : map[p] # None)
    IN  [i \in 1..Len(present) |-> <<present[i], map[present[i]][1]>>]

\* a read for the caller's own key (lines 55-60, 84-89, 106-111)
ReadOwn(op, map, caller) ==
    /\ IF ~hasPermission(caller, "user")
       THEN Trap(op, caller, caller)
       ELSE /\ Replies(op, caller, caller, map[caller])
            /\ UNCHANGED <<maps, userRoles>>
    /\ storeUnchanged

\* a read of a given key whatever the caller's capability
ReadForUser_unchecked(op, map, caller, user) ==
    /\ Replies(op, caller, user, map[user])
    /\ UNCHANGED <<maps, userRoles>>
    /\ storeUnchanged

\* a read for a given key (lines 62-67, 91-96, 113-118)
ReadForUser(op, map, caller, user) ==
    /\ IF caller # user /\ ~isAdmin(caller)
       THEN Trap(op, caller, user)
       ELSE /\ Replies(op, caller, user, map[user])
            /\ UNCHANGED <<maps, userRoles>>
    /\ storeUnchanged

\* a read of all entries (lines 121-142)
ReadAll(op, map, caller) ==
    /\ IF ~hasPermission(caller, "admin")
       THEN Trap(op, caller, caller)
       ELSE /\ Replies(op, caller, caller, toArray(map))
            /\ UNCHANGED <<maps, userRoles>>
    /\ storeUnchanged

getCallerUserProfile(caller) == ReadOwn("getCallerUserProfile", userProfiles, caller)
getUserProfile(caller, user) == ReadForUser("getUserProfile", userProfiles, caller, user)
getUserStats(caller) == ReadOwn("getUserStats", userStats, caller)
getUserStatsForUser(caller, user) == ReadForUser("getUserStatsForUser", userStats, caller, user)
getChannelStatus(caller) == ReadOwn("getChannelStatus", channelStatus, caller)
getChannelStatusForUser(caller, user) ==
    ReadForUser("getChannelStatusForUser", channelStatus, caller, user)
getAllUserStats(caller) == ReadAll("getAllUserStats", userStats, caller)
getAllChannelStatuses(caller) == ReadAll("getAllChannelStatuses", channelStatus, caller)
getAllUserProfiles(caller) == ReadAll("getAllUserProfiles", userProfiles, caller)

\* lines 69-74
saveCallerUserProfile(caller, profile) ==
    /\ IF ~hasPermission(caller, "user")
       THEN Trap("saveCallerUserProfile", caller, caller)
       ELSE /\ userProfiles' = [userProfiles EXCEPT ![caller] = Some(profile)]
            /\ Replies("saveCallerUserProfile", caller, caller, None)
            /\ UNCHANGED <<userStats, channelStatus, userRoles>>
    /\ storeUnchanged

\* lines 77-82
updateUserStats(caller, stats) ==
    /\ IF ~hasPermission(caller, "user")
       THEN Trap("updateUserStats", caller, caller)
       ELSE /\ userStats' = [userStats EXCEPT ![caller] = Some(stats)]
            /\ Replies("updateUserStats", caller, caller, None)
            /\ UNCHANGED <<userProfiles, channelStatus, userRoles>>
    /\ storeUnchanged

\* lines 99-104
updateChannelStatus(caller, status) ==
    /\ IF ~hasPermission(caller, "user")
       THEN Trap("updateChannelStatus", caller, caller)
       ELSE /\ channelStatus' = [channelStatus EXCEPT ![caller] = Some(status)]
            /\ Replies("updateChannelStatus", caller, caller, None)
            /\ UNCHANGED <<userProfiles, userStats, userRoles>>
    /\ storeUnchanged

\* lines 44-46: an admin gives a principal a role
assignCallerUserRole(caller, user, role) ==
    /\ IF ~isAdmin(caller)
       THEN Trap("assignCallerUserRole", caller, user)
       ELSE /\ userRoles' = [userRoles EXCEPT ![user] = role]
            /\ Replies("assignCallerUserRole", caller, user, None)
            /\ UNCHANGED maps
    /\ storeUnchanged

InitStore == LoaderInit({"one"}, {TRUE}) /\ PlayerInit /\ StoreInit /\ IdleCall

\* Every principal calls every read; alice and bob save their records, and
\* the admin moves alice and bob between the roles user and guest.
NextStore ==
    \E caller \in Principals :
       \/ getCallerUserProfile(caller)
       \/ getUserStats(caller)
       \/ getChannelStatus(caller)
       \/ getAllUserStats(caller)
       \/ getAllChannelStatuses(caller)
       \/ getAllUserProfiles(caller)
       \/ (caller \in Members /\ saveCallerUserProfile(caller, ProfileOf(caller)))
       \/ (caller \in Members /\ updateUserStats(caller, StatsOf(caller)))
       \/ (caller \in Members /\ updateChannelStatus(caller, StatusOf(caller)))
       \/ \E user \in Principals :
             \/ getUserProfile(caller, user)
             \/ getUserStatsForUser(caller, user)
             \/ getChannelStatusForUser(caller, user)
       \/ \E user \in Members, role \in Roles \ {"admin"} :
             assignCallerUserRole(caller, user, role)

SpecStore == InitStore /\ [][NextStore]_vars

---------------------------------------------------------------------------
(* C11: after the cache version is bumped, no read in any tier (memory,    *)
(* IndexedDB, localStorage) returns an entry that was written under the     *)
(* previous version: whatever a cache layer of the catalog read returns    *)
(* was written (or fetched) by the running build.                          *)
C11_Step ==
    /\ ((ReadStart /\ MemoryHit) => (memWrittenBy = build))
    /\ ((IdbReadDone /\ getFromIndexedDB # None) => (indexedDB[1].version = build))
    /\ ((IdbReadDone /\ getFromIndexedDB = None /\ getCachedStations # None)
          => (localStore[1].version = build))

C11_NoEntryOfPreviousVersion == [][C11_Step]_vars

---------------------------------------------------------------------------
(* C12: after a warm start (the catalog read was served from a valid cache *)
(* entry: memory, or IndexedDB / localStorage in a fresh process) the      *)
(* cached list is what the read returns, and the paging loop resumes       *)
(* without requesting offset 0 again.                                      *)
WarmStarted == lastRead \in {"memory", "idb", "ls"}

C12_Step ==
    /\ ((IdbReadDone /\ lastRead' = "idb") => (queryData' = Some(indexedDB[1].stations)))
    /\ ((Tick /\ WarmStarted) => (currentOffset # 0))

C12_WarmStartResumes == [][C12_Step]_vars

---------------------------------------------------------------------------
(* C13: after any sequence of cold starts, background page loads and the   *)
(* final merge, every station of the published catalog (memory and the     *)
(* query data) is valid: coordinates non-null, within -90..90 and          *)
(* -180..180 and not (0,0); a non-empty stream URL; a non-empty country;   *)
(* bitrate 0 or at least 24.                                               *)
InRange(c, limit) == c # None /\ ~IsNaN(c) /\ c[1] >= -limit /\ c[1] <= limit

ValidAsPublished(s) ==
    /\ InRange(s.geo_lat, 900000)
    /\ InRange(s.geo_long, 1800000)
    /\ ~(s.geo_lat = Some(0) /\ s.geo_long = Some(0))
    /\ (s.url_resolved # "" \/ s.url # "")
    /\ s.country # ""
    /\ (s.bitrate = 0 \/ s.bitrate >= 24)

AllValid(list) == list # None => \A i \in 1..Len(list[1]) : ValidAsPublished(list[1][i])

C13_PublishedCatalogValid == AllValid(queryData) /\ AllValid(memoryCache)

\* the final merge over a directory whose pages and feed carry invalid records
\* has been published, and the catalog is not empty
C13_Witness ==
    /\ source = "three"
    /\ cycle.merged
    /\ cycle.pages = {0, 200, 400}
    /\ queryData # None
    /\ Len(queryData[1]) > 0

---------------------------------------------------------------------------
(* C14: the validity filter rejects a raw station if its latitude or       *)
(* longitude is null, out of range (not a value within -90..90 /           *)
(* -180..180) or both are zero; or if its resolved stream URL              *)
(* (url_resolved, else url) is empty; or if its country is empty; or if    *)
(* 0 < bitrate < 24 - and it accepts every other station.                  *)
Rejected(s) ==
    \/ s.geo_lat = None
    \/ s.geo_long = None
    \/ ~InRange(s.geo_lat, 900000)
    \/ ~InRange(s.geo_long, 1800000)
    \/ (s.geo_lat = Some(0) /\ s.geo_long = Some(0))
    \/ (IF s.url_resolved # "" THEN s.url_resolved ELSE s.url) = ""
    \/ s.country = ""
    \/ (0 < s.bitrate /\ s.bitrate < 24)

C14_ValidityFilter ==
    (call.fn = "filter" /\ ret # None)
        => (ret[1] = IF Rejected(call.a[1]) THEN <<>> ELSE call.a)

\* a station on the coordinate limits, with a fallback URL and a country, is
\* rejected for nothing but its bitrate of 23
C14_Witness ==
    /\ call.fn = "filter"
    /\ ret = Some(<<>>)
    /\ call.a[1].bitrate = 23
    /\ call.a[1].geo_lat = Some(900000)
    /\ call.a[1].geo_long = Some(-1800000)
    /\ call.a[1].url_resolved = ""
    /\ call.a[1].url = "u"
    /\ call.a[1].country = "IN"

---------------------------------------------------------------------------
(* C15: coordinate dedup returns exactly one station per distinct          *)
(* coordinate key (latitude and longitude each rounded to 3 decimal        *)
(* places); the station kept for a key has the highest qualityScore        *)
(* (2*votes + clickCount + bitrate/10) of its group and, among the         *)
(* stations tied for it, the smallest id.                                  *)

\* a value in 1/10000 rounded to thousandths, as a number
Round3(v) == IF v < 0 THEN -((-v + 5) \div 10) ELSE (v + 5) \div 10
RoundedKey(s) == <<Round3(s.geo_lat[1]), Round3(s.geo_long[1])>>
\* ten times the qualityScore
QualityScore10(s) == 10 * (2 * s.votes + s.clickcount) + s.bitrate

Range(seq) == {seq[i] : i \in 1..Len(seq)}

OnePerKey(in, out) ==
    \A s \in Range(in) :
        Cardinality({k \in 1..Len(out) : RoundedKey(out[k]) = RoundedKey(s)}) = 1

BestOfGroup(in, out) ==
    \A kept \in Range(out) :
        /\ kept \in Range(in)
        /\ \A s \in Range(in) :
              (RoundedKey(s) = RoundedKey(kept)) =>
                  \/ QualityScore10(kept) > QualityScore10(s)
                  \/ (QualityScore10(kept) = QualityScore10(s)
                      /\ kept.stationuuid <= s.stationuuid)

C15_CoordinateDedup ==
    (call.fn = "dedup" /\ ret # None)
        => (OnePerKey(call.a, ret[1]) /\ BestOfGroup(call.a, ret[1]))

---------------------------------------------------------------------------
(* C16: coordinate dedup is deterministic and order-independent: for every *)
(* list of valid stations and every permutation of it,                     *)
(* deduplicateByCoordinates yields the same set of stations.               *)
Reorderings(seq) ==
    LET n == Len(seq)
    IN  {[i \in 1..n |-> seq[f[i]]] :
            f \in {g \in [1..n -> 1..n] : \A i, j \in 1..n : (g[i] = g[j]) => (i = j)}}

C16_OrderIndependent ==
    (call.fn = "dedup" /\ ret # None)
        => \A p \in Reorderings(call.a) :
               Range(deduplicateByCoordinates(p)) = Range(ret[1])

---------------------------------------------------------------------------
(* C17: the ranked catalog (the list processStations returns) is strictly  *)
(* ordered: for positions i < j, score(i) > score(j), or the scores are    *)
(* equal and id(i) < id(j); no two stations of the catalog compare equal   *)
(* under the ranking comparator.                                           *)
StrictlyRanked(list) ==
    \A i, j \in 1..Len(list) :
        (i < j) =>
            \/ QualityScore10(list[i]) > QualityScore10(list[j])
            \/ (QualityScore10(list[i]) = QualityScore10(list[j])
                /\ list[i].stationuuid < list[j].stationuuid)

C17_StrictRanking == (call.fn = "process" /\ ret # None) => StrictlyRanked(ret[1])

---------------------------------------------------------------------------
(* C18: merging a primary list A and a secondary list B by identifier      *)
(* dedup yields exactly one record for each id occurring in A or B, that   *)
(* is |ids(A) \cup ids(B)| records, and the record kept for an id is the   *)
(* first with that id in A followed by B (a primary record wins over a     *)
(* secondary record with the same id).                                     *)
Ids(list) == {list[i].stationuuid : i \in 1..Len(list)}

FirstSeen(list, id) ==
    list[CHOOSE i \in 1..Len(list) :
            /\ list[i].stationuuid = id
            /\ \A j \in 1..(i - 1) : list[j].stationuuid # id]

C18_MergeKeepsFirstSeen ==
    (call.fn = "merge" /\ ret # None) =>
        LET both == call.a \o call.b
            out == ret[1]
        IN  /\ Len(out) = Cardinality(Ids(call.a) \cup Ids(call.b))
            /\ \A id \in Ids(both) :
                  /\ Cardinality({k \in 1..Len(out) : out[k].stationuuid = id}) = 1
                  /\ FirstSeen(both, id) \in Range(out)

\* the secondary list carries another record of a primary station, and a new one
C18_Witness ==
    /\ call.fn = "merge"
    /\ call.a = <<sE>>
    /\ call.b = <<sE2, sA>>
    /\ ret = Some(<<sE, sA>>)

---------------------------------------------------------------------------
(* C19: if a page fetch of the background loop fails (every mirror raises: *)
(* network error, timeout, HTTP status, bad body), the failure is treated  *)
(* as transient: offset, loadedStations and the published catalog are      *)
(* unchanged, isLoading returns to false, and the next interval tick       *)
(* fetches the same offset again.                                          *)
C19_Step ==
    \A b \in batches :
        (FetchDone(b) /\ MirrorsDown(source, b.offset)) =>
            /\ currentOffset' = b.offset
            /\ lazyLoadedStations' = lazyLoadedStations
            /\ memoryCache' = memoryCache
            /\ queryData' = queryData
            /\ isLoadingBatch' = FALSE

C19_FailedPageRetried == [][C19_Step]_vars

---------------------------------------------------------------------------
(* C20: if the request for the secondary feed fails after the loader has   *)
(* marked complete, the primary catalog is not rolled back: the catalog    *)
(* built from the primary pages alone is what memory and the subscribers   *)
(* hold, it replaces no larger catalog, and the loader stays complete.     *)
NotSmaller(after, before) ==
    /\ after # None
    /\ (before # None) => (Len(after[1]) >= Len(before[1]))

C20_Step ==
    \A b \in batches :
        (FeedDone(b) /\ FeedDown(source) /\ ~FeedCached) =>
            /\ allStationsLoaded /\ allStationsLoaded'
            /\ memoryCache' = Some(processStations(lazyLoadedStations))
            /\ queryData' = memoryCache'
            /\ NotSmaller(memoryCache', memoryCache)
            /\ NotSmaller(queryData', queryData)

C20_FeedFailureKeepsCatalog == [][C20_Step]_vars

---------------------------------------------------------------------------
(* C21: if a write to a durable tier fails during a publish (IndexedDB     *)
(* unavailable, localStorage quota exceeded), the failure is swallowed:    *)
(* the load step completes as with a successful write - memory and the     *)
(* subscribers hold the new catalog, the offset advances by one page,      *)
(* isLoadingBatch returns to false and the loop can tick again - and the   *)
(* failing tier is left without the catalog.                               *)
WriteFails == ~lsWorks \/ ~idbWorks

C21_Step ==
    WriteFails =>
        /\ (~lsWorks) => (localStore' = None)
        /\ (~idbWorks) => (indexedDB' = indexedDB)
        /\ \A b \in batches :
              /\ (FetchDone(b) /\ Len(fetchBatchFromAPI(source, b.offset)) > 0) =>
                    /\ currentOffset' = currentOffset + 200
                    /\ memoryCache' = Some(processStations(lazyLoadedStations'))
                    /\ queryData' = memoryCache'
                    /\ (currentOffset' % 1000 # 0) => (isLoadingBatch' = FALSE)
              /\ PageSaveDone(b) =>
                    /\ isLoadingBatch' = FALSE
                    /\ ~allStationsLoaded'
                    /\ UNCHANGED <<memoryCache, queryData, currentOffset>>
              /\ FeedDone(b) =>
                    /\ memoryCache' # None
                    /\ queryData' = memoryCache'
                    /\ allStationsLoaded'
              /\ FeedSaveDone(b) =>
                    /\ isLoadingBatch' = FALSE
                    /\ UNCHANGED <<memoryCache, queryData, currentOffset, allStationsLoaded>>
        /\ ColdSaveDone =>
              /\ memoryCache' = Some(query.local)
              /\ queryData' = memoryCache'
              /\ lastRead' = "network"

C21_WriteFailureSwallowed == [][C21_Step]_vars

\* with both tiers failing, the directory of five pages has been paged through
\* the periodic save and the final merge; the catalog is in memory only
C21_Witness ==
    /\ ~lsWorks /\ ~idbWorks
    /\ source = "gap"
    /\ cycle.cold /\ cycle.merged
    /\ 800 \in cycle.pages
    /\ batches = {}
    /\ ~isLoadingBatch
    /\ memoryCache # None /\ Len(memoryCache[1]) > 0
    /\ queryData = memoryCache
    /\ localStore = None /\ indexedDB = None

---------------------------------------------------------------------------
(* C22  copy on publish                                                    *)

\* the objects memoryCache and the subscribers hold
Snapshots(r) == {r.mem, r.data} \ {NoRef}

\* C22: a published station list is never changed in place: as long as
\* memoryCache or the query data refer to the same array object, their lists
\* are the same; a reference copied from one to the other carries the list
\* with it; every publish of loadNextBatch installs an array object that no
\* reference held before; and lazyLoadedStations, the only array that push
\* changes, is never the object behind memoryCache or the query data.
C22_Step ==
    /\ refs.lazy \notin Snapshots(refs)
    /\ refs'.lazy \notin Snapshots(refs')
    /\ (refs.mem # NoRef /\ refs'.mem = refs.mem) => (memoryCache' = memoryCache)
    /\ (refs.data # NoRef /\ refs'.data = refs.data) => (queryData' = queryData)
    /\ (refs.mem # NoRef /\ refs'.data = refs.mem) => (queryData' = memoryCache)
    /\ (refs.data # NoRef /\ refs'.mem = refs.data) => (memoryCache' = queryData)
    /\ \A b \in batches :
          ((FetchDone(b) /\ Len(fetchBatchFromAPI(source, b.offset)) > 0) \/ FeedDone(b)) =>
              /\ refs'.mem \notin Held(refs) \cup {NoRef}
              /\ refs'.data = refs'.mem
              /\ refs'.lazy = refs.lazy

C22_CopyOnPublish == [][C22_Step]_vars

\* two pages were published after a cold start; the accumulator has grown
\* since the first snapshot and differs from the list that is published
C22_Witness ==
    /\ cycle.cold /\ {0, 200} \subseteq cycle.pages
    /\ refs.mem # NoRef /\ refs.data = refs.mem
    /\ refs.lazy \notin Snapshots(refs)
    /\ memoryCache # None /\ queryData = memoryCache
    /\ Len(lazyLoadedStations) > Len(memoryCache[1])

---------------------------------------------------------------------------
(* C23  reconnect triggers                                                 *)

\* the error and stalled events of the audio element
StallOrError == Stalled \/ StreamError \/ LoadFails \/ EmptySrcError

\* every caller of attemptReconnect
ReconnectTrigger == StallOrError \/ PlayRejected \/ ManualPlayRejected

\* C23 (as claimed): a stalled or error event starts a reconnect only if
\* playback has started in this session and no reconnect is in flight, and
\* while isReconnecting is true no trigger (stalled, error, rejected play()
\* after canplay, rejected manual play) changes retryCount or the retry timer.
C23_Step ==
    /\ (StallOrError /\ retryCount' # retryCount) => (playbackStarted /\ ~isReconnecting)
    /\ (ReconnectTrigger /\ isReconnecting) => UNCHANGED <<retryCount, retryTimer>>

C23_ReconnectGuard == [][C23_Step]_vars

---------------------------------------------------------------------------
(* C24  station change                                                     *)

\* C24 (as claimed): selecting a station cancels every pending timer,
\* resets retryCount to 0 and loads the new station's URL, and from then on
\* the audio source is only ever set to the URL of the selected station (or
\* emptied): no timer of the earlier session sets the earlier URL again.
C24_Step ==
    /\ \A s \in PlayerStations :
          SelectStation(s) =>
              /\ retryTimer' = None /\ reloadTimer' = None
              /\ retryCount' = 0
              /\ audioSrc' = s /\ media' = "loading"
    /\ (audioSrc' # audioSrc) => (audioSrc' \in {"", station'})

C24_NoRebindToOldStation == [][C24_Step]_vars

---------------------------------------------------------------------------
(* C25  pause and close                                                    *)

\* C25 (as claimed): a pause or a close leaves no reconnect timer pending
\* and the element paused, and while the player is closed (no station until
\* the next selection) nothing plays and no reload sets a source.
C25_Step ==
    /\ (TogglePause \/ Close) =>
          (retryTimer' = None /\ reloadTimer' = None /\ paused' /\ ~isPlaying')
    /\ (station = NoStation /\ station' = NoStation) =>
          (paused' /\ ~isPlaying' /\ audioSrc' = audioSrc)

C25_PauseOrCloseIsIdle == [][C25_Step]_vars

---------------------------------------------------------------------------
(* C26  Failed                                                             *)

\* the session has given up: attemptReconnect reported the error
Failed == error = Some(UnableToConnect)

\* C26 (as claimed): a Failed session stays Failed until a station is
\* selected: the error stays reported, retryCount is not reset, no retry
\* timer is set or fires, no source is loaded and nothing plays.
C26_Step ==
    Failed =>
        \/ \E s \in PlayerStations : SelectStation(s)
        \/ /\ Failed'
           /\ retryCount' = retryCount
           /\ retryTimer' = retryTimer /\ retryTimer = None
           /\ reloadTimer' = reloadTimer /\ reloadTimer = None
           /\ audioSrc' = audioSrc
           /\ ~isPlaying'

C26_FailedIsTerminal == [][C26_Step]_vars

---------------------------------------------------------------------------
(* C27  mirror failover                                                    *)

\* the first mirror whose answer is a 2xx response with an array body, 0 if none
FirstAnswering(answers) ==
    IF \E i \in 1..Len(answers) : answers[i].kind = "array"
    THEN CHOOSE i \in 1..Len(answers) :
            /\ answers[i].kind = "array"
            /\ \A j \in 1..(i - 1) : answers[j].kind # "array"
    ELSE 0

FetchReturned == call.fn = "fetch" /\ ret # None

\* C27: fetchBatchFromAPI requests the mirrors de1, at1, nl1 in this order,
\* each at most once; a network error, timeout, non-2xx status, unparsable or
\* non-array body moves on to the next mirror; the array of the first mirror
\* that answers is returned, empty or not, and no later mirror is requested;
\* when every mirror has failed the result is the empty sequence.
C27_MirrorFailover ==
    FetchReturned =>
        LET k == FirstAnswering(call.a)
        IN  /\ ret[1].contacted = SubSeq(servers, 1, IF k = 0 THEN Len(servers) ELSE k)
            /\ ret[1].batch = IF k = 0 THEN <<>> ELSE call.a[k].body

\* de1 times out, at1 answers 5xx, nl1 answers with a page
C27_Witness ==
    /\ FetchReturned
    /\ call.a[1].kind = "timeout" /\ call.a[2].kind = "status" /\ call.a[3].kind = "array"
    /\ ret[1].contacted = servers
    /\ Len(ret[1].batch) = 2

\* C27 (as claimed): moreover the empty sequence is returned only after all
\* mirrors have failed.
C27_EmptyOnlyAfterAllFailed ==
    /\ C27_MirrorFailover
    /\ (FetchReturned /\ ret[1].batch = <<>>) => (FirstAnswering(call.a) = 0)

---------------------------------------------------------------------------
(* C28  authorization of the actor's operations                            *)

CallerOps == {"getCallerUserProfile", "saveCallerUserProfile", "updateUserStats",
              "getUserStats", "updateChannelStatus", "getChannelStatus"}
ForUserOps == {"getUserProfile", "getUserStatsForUser", "getChannelStatusForUser"}
BulkOps == {"getAllUserStats", "getAllChannelStatuses", "getAllUserProfiles"}

\* the call reads or writes the caller's own profile, stats or channel status
OwnRecordCall(r) == r.op \in CallerOps \/ (r.op \in ForUserOps /\ r.user = r.caller)

\* C28 (as claimed): a call that reads or writes the caller's own profile,
\* stats or channel status fails when the caller lacks the user capability,
\* a bulk read fails when the caller lacks the admin capability, and a
\* failed call leaves userProfiles, userStats and channelStatus unchanged.
C28_Step ==
    /\ (OwnRecordCall(reply') /\ ~hasPermission(reply'.caller, "user")) => ~reply'.ok
    /\ (reply'.op \in BulkOps /\ ~hasPermission(reply'.caller, "admin")) => ~reply'.ok
    /\ (~reply'.ok) => UNCHANGED <<userProfiles, userStats, channelStatus>>

C28_CapabilityRequired == [][C28_Step]_vars

---------------------------------------------------------------------------
(* C29  scoping to the calling identity                                    *)

\* the map an operation works on
ProfileOps == {"getCallerUserProfile", "getUserProfile", "saveCallerUserProfile"}
StatsOps == {"getUserStats", "getUserStatsForUser", "updateUserStats"}
SaveOps == {"saveCallerUserProfile", "updateUserStats", "updateChannelStatus"}
RecordReads == (CallerOps \cup ForUserOps) \ SaveOps

\* the record principal p saved through the map of operation op
RecordOf(op, p) ==
    IF op \in ProfileOps THEN ProfileOf(p)
    ELSE IF op \in StatsOps THEN StatsOf(p)
    ELSE StatusOf(p)

\* all entries but the caller's are as before
OthersKept(map, after, caller) == \A q \in Principals \ {caller} : after[q] = map[q]

\* C29: a save by principal P changes nothing but P's entry of the map it
\* is for; a read that answers a caller who is not admin with a record
\* answers with the caller's own record; and a bulk read answers admins only.
C29_Step ==
    /\ OthersKept(userProfiles, userProfiles', reply'.caller)
    /\ OthersKept(userStats, userStats', reply'.caller)
    /\ OthersKept(channelStatus, channelStatus', reply'.caller)
    /\ (reply'.op # "saveCallerUserProfile") => UNCHANGED userProfiles
    /\ (reply'.op # "updateUserStats") => UNCHANGED userStats
    /\ (reply'.op # "updateChannelStatus") => UNCHANGED channelStatus
    /\ (reply'.op \in RecordReads /\ reply'.ok /\ ~isAdmin(reply'.caller)
           /\ reply'.value # None) =>
          (reply'.value = Some(RecordOf(reply'.op, reply'.caller)))
    /\ (reply'.op \in BulkOps /\ reply'.ok) => isAdmin(reply'.caller)

C29_ScopedToCaller == [][C29_Step]_vars

\* alice, a user, has saved her stats and asked for bob's, which exist: the
\* call failed
C29_Witness ==
    /\ reply.op = "getUserStatsForUser" /\ reply.caller = "alice" /\ reply.user = "bob"
    /\ userRoles["alice"] = "user"
    /\ userStats["bob"] = Some(StatsOf("bob")) /\ userStats["alice"] = Some(StatsOf("alice"))
    /\ userProfiles["bob"] # None /\ channelStatus["alice"] # None
    /\ ~reply.ok

---------------------------------------------------------------------------
(* C30  publish before persist                                             *)

\* the catalog is in memory and with the subscribers
PublishedNow(list) == memoryCache' = Some(list) /\ queryData' = Some(list)

\* C30 (as claimed): whenever a publish point starts a durable write (the
\* cold start, a background page load with its periodic save, the final
\* merge), memoryCache and the query data already hold the catalog being
\* written, so that a read during the write is served from memory.
C30_Step ==
    /\ (ColdFetchDone /\ query'.pc = "coldSave") => PublishedNow(query'.local)
    /\ \A b \in batches : \A c \in batches' \ batches :
          ((FetchDone(b) \/ FeedDone(b)) /\ c.pc \in {"pageSave", "feedSave"}) =>
              PublishedNow(c.local)

C30_PublishBeforePersist == [][C30_Step]_vars

---------------------------------------------------------------------------
(* C31  periodic persist                                                   *)

\* pages appended in this cycle that the last persisted catalog does not hold
PagesBehind(c) == Cardinality(c.pages \ c.saved)

\* C31 (as claimed): the page load that brings the offset to a multiple of
\* 1000 persists the catalog it publishes to localStorage and to IndexedDB,
\* and before completion the persisted catalog is at most 4 loaded pages
\* behind the published one.
C31_Step ==
    /\ \A b \in batches :
          /\ (FetchDone(b) /\ Len(fetchBatchFromAPI(source, b.offset)) > 0
                 /\ currentOffset' % SavePeriod = 0) =>
                (localStore' # None /\ Some(localStore'[1].stations) = memoryCache')
          /\ (PageSaveDone(b) /\ ~b.wiped) =>
                (indexedDB' # None /\ indexedDB'[1].stations = b.local)
    /\ (cycle'.cold /\ ~allStationsLoaded') => (PagesBehind(cycle') <= 4)

C31_PeriodicPersist == [][C31_Step]_vars

---------------------------------------------------------------------------
(* C32  state after a cold start                                           *)

\* the validated first page and the catalog made of it
FirstPage == ValidBatch(fetchBatchFromAPI(source, 0))
FirstCatalog == processStations(FirstPage)

\* C32 (as claimed): when a cold start with a non-empty first page returns,
\* offset = 200, loadedStations = the validated first page,
\* consecutiveEmptyBatches = 0, complete = false, and the published catalog
\* is the processed first page, held by memory and by every durable tier that
\* accepts writes; a cold start whose first page is empty writes no tier.
C32_Step ==
    /\ ColdSaveDone =>
          /\ currentOffset' = PageSize
          /\ lazyLoadedStations' = FirstPage
          /\ consecutiveEmptyBatches' = 0
          /\ ~allStationsLoaded'
          /\ queryData' = Some(FirstCatalog)
          /\ memoryCache' = Some(FirstCatalog)
          /\ lsWorks => (localStore' # None /\ localStore'[1].stations = FirstCatalog)
          /\ idbWorks => (indexedDB' # None /\ indexedDB'[1].stations = FirstCatalog)
    /\ (ColdFetchDone /\ Len(fetchBatchFromAPI(source, 0)) = 0) =>
          UNCHANGED <<memoryCache, localStore, indexedDB>>

C32_ColdStartState == [][C32_Step]_vars

---------------------------------------------------------------------------
(* C33  volume and mute are orthogonal to the connection                   *)

VolumeStep == toggleMute \/ \E v \in SliderValues : handleVolumeChange(v)

\* C33: toggleMute and handleVolumeChange change neither the station,
\* retryCount, isReconnecting, playbackStarted nor a pending timer; no
\* transition of the connection changes volume or mute; and the level of the
\* audio element is 0 when muted and volume/100 otherwise.
C33_Step ==
    /\ VolumeStep => UNCHANGED <<station, retryCount, isReconnecting, playbackStarted,
                                 retryTimer, reloadTimer>>
    /\ NextPlayer => UNCHANGED <<volume, isMuted>>
    /\ audioVolume' = IF isMuted' THEN 0 ELSE volume'

C33_VolumeOrthogonal == [][C33_Step]_vars

\* muted while a reconnect is pending, the element silent
C33_Witness == isMuted /\ volume > 0 /\ audioVolume = 0 /\ retryTimer # None /\ retryCount > 0

---------------------------------------------------------------------------
(* C34  no page is skipped                                                 *)

\* the page offsets below an offset
PagesBelow(offset) == {o \in 0..(offset - 1) : o % PageSize = 0}

\* C34 (as claimed): once the loader of a cold-started cycle is complete,
\* every page offset below the final offset is one that some mirror answers
\* (the directory and its mirrors do not change during the cycle); and a page
\* on which all mirrors failed is requested again by the next tick, without
\* being counted as an empty page.
C34_Step ==
    /\ (cycle'.cold /\ allStationsLoaded') =>
          (\A o \in PagesBelow(currentOffset') : MirrorAnswered(source', o))
    /\ \A b \in batches :
          (FetchDone(b) /\ ~MirrorAnswered(source, b.offset)) =>
              /\ currentOffset' = b.offset
              /\ consecutiveEmptyBatches' = consecutiveEmptyBatches

C34_NoPageSkipped == [][C34_Step]_vars

---------------------------------------------------------------------------
(* C35  the published catalog never loses a coordinate key                 *)

\* the coordinate keys of a list of stations
KeysOf(list) == {CoordKey(list[i]) : i \in 1..Len(list)}

\* C35 (as claimed): from one publish to the next, with no cache clear or
\* expiry between them, every coordinate key of the published catalog stays
\* in it; a page publish after a warm start does not shrink the catalog.
C35_Step ==
    (queryData # None /\ queryData' # None) =>
        /\ KeysOf(queryData[1]) \subseteq KeysOf(queryData'[1])
        /\ Len(queryData'[1]) >= Len(queryData[1])

C35_KeysNeverLost == [][C35_Step]_vars

---------------------------------------------------------------------------
(* C36  no duplicate station id in the published catalog                   *)

DistinctIds(list) ==
    \A i, j \in 1..Len(list) : (list[i].stationuuid = list[j].stationuuid) => (i = j)

\* C36 (as claimed): the catalog held by memory and by the subscribers never
\* contains two stations with the same id, whichever pages repeated an id.
C36_NoDuplicateIds ==
    /\ (queryData # None) => DistinctIds(queryData[1])
    /\ (memoryCache # None) => DistinctIds(memoryCache[1])

---------------------------------------------------------------------------
(* C37  loader termination                                                 *)

\* a step that begins a new cycle: cache clear, page reload, cold start
NewCycle == Clear \/ Reload \/ IdbReadDone \/ ColdFetchDone

\* C37 (as claimed, the part a finite run can refute): from the moment the
\* loader is complete isLoading is false, and offset, loadedStations and
\* consecutiveEmptyBatches do not change until a cache clear or a new cold
\* start.
C37_Step ==
    /\ allStationsLoaded' => ~isLoadingBatch'
    /\ (allStationsLoaded /\ ~NewCycle) =>
          UNCHANGED <<currentOffset, lazyLoadedStations, consecutiveEmptyBatches>>

C37_CompleteIsFinal == [][C37_Step]_vars

---------------------------------------------------------------------------
(* C38  retry counter and delays                                           *)

\* the session plays and no reconnect is under way (a stall or error moves
\* the session on to Reconnecting, where isPlaying is still set)
Playing == isPlaying /\ ~isReconnecting

\* C38: retryCount stays within 0..10 and is 0 while the session is Playing;
\* a scheduled reload delay lies between 2000 ms and 30000 ms, is at least
\* the delay of every smaller retry count, and a reconnect that follows a
\* pending one of the same series never has a shorter delay.
C38_Step ==
    /\ retryCount' \in 0..10
    /\ Playing' => (retryCount' = 0)
    /\ (retryTimer' # None) =>
          /\ retryTimer'[1] >= 2000
          /\ retryTimer'[1] <= 30000
          /\ \A m \in 1..retryCount' : RetryDelay(m) <= retryTimer'[1]
    /\ (retryCount >= 1 /\ retryTimer # None /\ retryTimer' # None
           /\ retryCount' > retryCount) =>
          (retryTimer'[1] >= retryTimer[1])

C38_RetryInvariants == [][C38_Step]_vars

\* a stall during playback has scheduled the first reconnect
C38_Witness ==
    /\ isPlaying
    /\ media = "playing"
    /\ isReconnecting
    /\ retryCount = 1
    /\ retryTimer = Some(2000)

---------------------------------------------------------------------------
(* C39  one pending reload, for the selected station                       *)

\* C39 (as claimed): the retry timer and the 100 ms reload timer are never
\* pending together, and a pending one belongs to the selected station: the
\* retry timer to the station held by currentStationRef, the reload timer to
\* the stream URL it captured.
C39_OnePendingReload ==
    /\ ~(retryTimer # None /\ reloadTimer # None)
    /\ (retryTimer # None) => (station # NoStation /\ currentStation = station)
    /\ (reloadTimer # None) => (reloadTimer[1] = station)

---------------------------------------------------------------------------
(* C40  next and previous stay inside the catalog                          *)

InCatalog(stations, s) == \E i \in 1..Len(stations) : stations[i] = s

\* the position after i, and before i, in a list of n, wrapping around
After(i, n) == IF i = n THEN 1 ELSE i + 1
Before(i, n) == IF i = 1 THEN n ELSE i - 1

\* C40 (as claimed): with a non-empty catalog, handleNextStation and
\* handlePreviousStation select an element of the catalog, the neighbour of
\* the selected station with wrap-around at the ends, also when the selected
\* station is not in the catalog.
C40_StaysInCatalog ==
    (call.fn \in {"next", "previous"} /\ ret # None /\ Len(call.a) > 0) =>
        /\ ret[1] # <<>>
        /\ InCatalog(call.a, ret[1][1])
        /\ LET i == findIndex(call.a, call.b[1]) + 1
               n == Len(call.a)
           IN  (i >= 1) =>
                  ret[1][1] = call.a[IF call.fn = "next" THEN After(i, n) ELSE Before(i, n)]

==========================================================================
